---- MODULE Spec2Model ----
(***************************************************************************)
(* Model of figma-asset-downloader (the iOS-capable CLI, version 1.2.0):   *)
(* component extraction, name resolution and the icon / image export      *)
(* pipelines with their per-component and per-variant failure handling.   *)
(*                                                                         *)
(* Strings that the program inspects character by character (component    *)
(* names, node names, paths, the section string) are sequences of          *)
(* one-character strings; strings the program only compares as a whole     *)
(* (platform, format, DPI keys, directory roots) are TLA+ strings.         *)
(***************************************************************************)
EXTENDS Integers, Sequences, FiniteSets, TLC

(***************************************************************************)
(* JavaScript string primitives used by the program.                       *)
(***************************************************************************)

\* The letters the model's inputs use, for String.prototype.toLowerCase.
UpperCase == <<"A", "B", "C", "D", "E", "F", "G", "H", "I", "J", "K", "L", "M",
               "N", "O", "P", "Q", "R", "S", "T", "U", "V", "W", "X", "Y", "Z">>

LowerCase == <<"a", "b", "c", "d", "e", "f", "g", "h", "i", "j", "k", "l", "m",
               "n", "o", "p", "q", "r", "s", "t", "u", "v", "w", "x", "y", "z">>

\* One character of toLowerCase().
LowerChar(c) ==
  IF \E i \in 1..Len(UpperCase) : UpperCase[i] = c
  THEN LowerCase[CHOOSE i \in 1..Len(UpperCase) : UpperCase[i] = c]
  ELSE c

\* s.toLowerCase()
ToLowerCase(s) == [i \in 1..Len(s) |-> LowerChar(s[i])]

\* The characters matched by the regular expression class \s.
IsWhitespace(c) == c \in {" ", "\t", "\n"}

\* s.startsWith(p)
StartsWith(s, p) == /\ Len(p) <= Len(s)
                    /\ SubSeq(s, 1, Len(p)) = p

\* s.indexOf(sub): the 1-based position of the first occurrence, 0 if none.
IndexOf(s, sub) ==
  LET hits == {i \in 1..(Len(s) - Len(sub) + 1) : SubSeq(s, i, i + Len(sub) - 1) = sub}
  IN IF hits = {} THEN 0 ELSE CHOOSE i \in hits : \A j \in hits : i <= j

\* s.includes(sub)
Includes(s, sub) == Len(sub) = 0 \/ IndexOf(s, sub) > 0

\* s.replace(pat, rep) with a string pattern: the first occurrence only.
ReplaceFirst(s, pat, rep) ==
  LET i == IndexOf(s, pat)
  IN IF i = 0 THEN s
     ELSE SubSeq(s, 1, i - 1) \o rep \o SubSeq(s, i + Len(pat), Len(s))

RECURSIVE ReplaceWhitespaceRuns(_)
\* s.replace(/\s+/g, '_'): every maximal run of whitespace becomes one '_'.
ReplaceWhitespaceRuns(s) ==
  IF s = <<>> THEN <<>>
  ELSE IF IsWhitespace(Head(s))
       THEN IF Len(s) > 1 /\ IsWhitespace(s[2])
            THEN ReplaceWhitespaceRuns(Tail(s))
            ELSE <<"_">> \o ReplaceWhitespaceRuns(Tail(s))
       ELSE <<Head(s)>> \o ReplaceWhitespaceRuns(Tail(s))

RECURSIVE Join(_, _)
\* parts.join(sep)
Join(parts, sep) ==
  IF parts = <<>> THEN <<>>
  ELSE IF Len(parts) = 1 THEN parts[1]
       ELSE parts[1] \o sep \o Join(Tail(parts), sep)

\* The separator of path.join(' / ').
PathSeparator == <<" ", "/", " ">>

\* The category prefixes of component names.
IconPrefix == <<"i", "c", "o", "n", "/">>

ImgPrefix == <<"i", "m", "g", "/">>

RECURSIVE ConcatAll(_)
\* The concatenation of a sequence of sequences (Array.push of each part in turn).
ConcatAll(seqs) ==
  IF seqs = <<>> THEN <<>> ELSE Head(seqs) \o ConcatAll(Tail(seqs))

\* The set of elements of a sequence.
Range(s) == {s[i] : i \in 1..Len(s)}

\* JavaScript null / undefined, where a string is expected.
Null == "null"

\* componentSet: null (a record of the same shape as a populated one).
NullComponentSet == [id |-> Null, name |-> <<>>, path |-> <<>>]

(***************************************************************************)
(* The document tree.  A document is the pre-order listing of its nodes;   *)
(* each node records its depth, so node j is a child of node i when j is   *)
(* the first node of depth[i]+1 after i, or follows such a node with only  *)
(* deeper nodes in between.  Node 1 is fileData.document.                  *)
(***************************************************************************)

\* The index after the last node of the subtree rooted at node i.
SubtreeEnd(doc, i) ==
  LET later == {j \in (i + 1)..Len(doc) : doc[j].depth <= doc[i].depth}
  IN IF later = {} THEN Len(doc) + 1
     ELSE CHOOSE j \in later : \A k \in later : j <= k

\* node.children taken last child first.
ChildrenLastFirst(doc, i) ==
  LET kids == {j \in (i + 1)..(SubtreeEnd(doc, i) - 1) : doc[j].depth = doc[i].depth + 1}
      RECURSIVE Sorted(_)
      Sorted(S) == IF S = {} THEN <<>>
                   ELSE LET m == CHOOSE x \in S : \A y \in S : x >= y
                        IN <<m>> \o Sorted(S \ {m})
  IN Sorted(kids)

\* node.children, in order (empty when the node has none).
Children(doc, i) ==
  LET kids == {j \in (i + 1)..(SubtreeEnd(doc, i) - 1) : doc[j].depth = doc[i].depth + 1}
      RECURSIVE Sorted(_)
      Sorted(S) == IF S = {} THEN <<>>
                   ELSE LET m == CHOOSE x \in S : \A y \in S : x <= y
                        IN <<m>> \o Sorted(S \ {m})
  IN Sorted(kids)

RECURSIVE traverseNodeIntoSkipped(_, _, _)
\* traverseNode passing over a node without a name or with a '#' name, yet
\* going on into its children.
traverseNodeIntoSkipped(doc, i, path) ==
  LET skipped == doc[i].name = <<>> \/ StartsWith(doc[i].name, <<"#">>)
      currentPath == IF skipped THEN path ELSE Append(path, doc[i].name)
      kids == Children(doc, i)
  IN (IF skipped THEN <<>> ELSE <<[node |-> i, path |-> currentPath]>>)
     \o ConcatAll([k \in 1..Len(kids) |-> traverseNodeIntoSkipped(doc, kids[k], currentPath)])

RECURSIVE traverseNodeFromParent(_, _, _)
\* traverseNode handing each child its parent's name alone instead of the
\* accumulated path.
traverseNodeFromParent(doc, i, path) ==
  IF doc[i].name = <<>> \/ StartsWith(doc[i].name, <<"#">>)
  THEN <<>>
  ELSE LET currentPath == Append(path, doc[i].name)
           kids == Children(doc, i)
       IN <<[node |-> i, path |-> currentPath]>>
          \o ConcatAll([k \in 1..Len(kids) |->
                          traverseNodeFromParent(doc, kids[k], <<doc[i].name>>)])

RECURSIVE traverseNode(_, _, _)
\* traverseNode(node, callback, path): the sequence of callback invocations,
\* each with the node visited and the currentPath it is given.
traverseNode(doc, i, path) ==
  IF doc[i].name = <<>> \/ StartsWith(doc[i].name, <<"#">>)
  THEN <<>>
  ELSE LET currentPath == Append(path, doc[i].name)
           kids == Children(doc, i)
       IN <<[node |-> i, path |-> currentPath]>>
          \o ConcatAll([k \in 1..Len(kids) |-> traverseNode(doc, kids[k], currentPath)])

RECURSIVE findPagesPerMatch(_, _, _, _)
\* findPages pushing a page once for its id and once for its name.
findPagesPerMatch(doc, i, pageIds, pageNames) ==
  LET idMatch == doc[i].id \in Range(pageIds)
      nameMatch == doc[i].name \in Range(pageNames)
      own == IF doc[i].type = "CANVAS"
             THEN (IF idMatch THEN <<i>> ELSE <<>>) \o (IF nameMatch THEN <<i>> ELSE <<>>)
             ELSE <<>>
      kids == Children(doc, i)
  IN own \o ConcatAll([k \in 1..Len(kids) |->
                         findPagesPerMatch(doc, kids[k], pageIds, pageNames)])

RECURSIVE findPages(_, _, _, _)
\* findPages(node): the CANVAS nodes matching a page id or a page name, in
\* document order; it recurses through every child, named or not.
findPages(doc, i, pageIds, pageNames) ==
  LET idMatch == doc[i].id \in Range(pageIds)
      nameMatch == doc[i].name \in Range(pageNames)
      own == IF doc[i].type = "CANVAS" /\ (idMatch \/ nameMatch) THEN <<i>> ELSE <<>>
      kids == Children(doc, i)
  IN own \o ConcatAll([k \in 1..Len(kids) |-> findPages(doc, kids[k], pageIds, pageNames)])

\* nodesToProcess without the fallback: the matched pages, even when there
\* is none.
nodesToProcessWithoutFallback(doc, pageIds, pageNames) ==
  IF Len(pageIds) > 0 \/ Len(pageNames) > 0
  THEN findPages(doc, 1, pageIds, pageNames)
  ELSE <<1>>

\* The traversal roots: the matched pages, or the document when there is none.
nodesToProcess(doc, pageIds, pageNames) ==
  LET foundPages == IF Len(pageIds) > 0 \/ Len(pageNames) > 0
                    THEN findPages(doc, 1, pageIds, pageNames)
                    ELSE <<>>
  IN IF Len(foundPages) > 0 THEN foundPages ELSE <<1>>

\* All callback invocations of one pass over the traversal roots.
Visits(doc, pageIds, pageNames) ==
  LET roots == nodesToProcess(doc, pageIds, pageNames)
  IN ConcatAll([r \in 1..Len(roots) |-> traverseNode(doc, roots[r], <<>>)])

\* componentSets collecting every visited node, whatever its type.
componentSetsOfAnyType(doc, pageIds, pageNames) ==
  LET v == Visits(doc, pageIds, pageNames)
      setVisits == 1..Len(v)
      ids == {doc[v[k].node].id : k \in setVisits}
  IN [id \in ids |->
        LET last == CHOOSE k \in setVisits :
                      /\ doc[v[k].node].id = id
                      /\ \A m \in setVisits : doc[v[m].node].id = id => m <= k
        IN [node |-> v[last].node, path |-> v[last].path]]

\* First pass: the componentSets map; a later set of the same id replaces an
\* earlier one (Map.set).
componentSets(doc, pageIds, pageNames) ==
  LET v == Visits(doc, pageIds, pageNames)
      setVisits == {k \in 1..Len(v) : doc[v[k].node].type = "COMPONENT_SET"}
      ids == {doc[v[k].node].id : k \in setVisits}
  IN [id \in ids |->
        LET last == CHOOSE k \in setVisits :
                      /\ doc[v[k].node].id = id
                      /\ \A m \in setVisits : doc[v[m].node].id = id => m <= k
        IN [node |-> v[last].node, path |-> v[last].path]]

\* Second pass: one record per visited COMPONENT node, in visiting order.
extractComponents(doc, pageIds, pageNames) ==
  LET v == Visits(doc, pageIds, pageNames)
      sets == componentSets(doc, pageIds, pageNames)
      record(k) ==
        LET n == doc[v[k].node]
        IN [id |-> n.id,
            name |-> n.name,
            path |-> Join(v[k].path, PathSeparator),
            type |-> n.type,
            componentSetId |-> n.componentSetId,
            componentSet |->
              IF n.componentSetId # Null /\ n.componentSetId \in DOMAIN sets
              THEN [id |-> n.componentSetId,
                    name |-> doc[sets[n.componentSetId].node].name,
                    path |-> sets[n.componentSetId].path]
              ELSE NullComponentSet]
  IN ConcatAll([k \in 1..Len(v) |->
                  IF doc[v[k].node].type = "COMPONENT" THEN <<record(k)>> ELSE <<>>])

(***************************************************************************)
(* Component resolution (fetchComponents).                                 *)
(***************************************************************************)

\* SectionFilter looking for the section string in the component's name
\* instead of its path.
SectionFilterByName(allComponents, section) ==
  SelectSeq(allComponents, LAMBDA c : Includes(c.name, section))

\* allComponents.filter(component => component.path.includes(sectionName))
SectionFilter(allComponents, section) ==
  SelectSeq(allComponents, LAMBDA c : Includes(c.path, section))

\* exactMatches accepting a component whose name merely contains the
\* requested name.
exactMatchesBySubstring(allComponents, requestedName) ==
  SelectSeq(allComponents, LAMBDA c : Includes(c.name, requestedName))

\* allComponents.filter(component => component.name === requestedName)
exactMatches(allComponents, requestedName) ==
  SelectSeq(allComponents, LAMBDA c : c.name = requestedName)

RECURSIVE DistinctNames(_)
\* The keys of a Map filled by names.forEach, in insertion order: each name
\* at the position of its first occurrence.
DistinctNames(names) ==
  IF names = <<>> THEN <<>>
  ELSE LET front == DistinctNames(SubSeq(names, 1, Len(names) - 1))
           last == names[Len(names)]
       IN IF last \in Range(front) THEN front ELSE Append(front, last)

\* duplicates never recording an ambiguous name, so that the names with a
\* single match are exported all the same.
duplicatesIgnored(allComponents, names) == <<>>

\* duplicates stopping at the first ambiguous name (fail-fast).
duplicatesFirstOnly(allComponents, names) ==
  LET keys == SelectSeq(DistinctNames(names),
                        LAMBDA n : Len(exactMatches(allComponents, n)) > 1)
  IN IF keys = <<>> THEN <<>>
     ELSE <<[name |-> keys[1], components |-> exactMatches(allComponents, keys[1])]>>

\* The duplicates Map: every requested name with more than one exact match,
\* with all of its matches.
duplicates(allComponents, names) ==
  LET keys == SelectSeq(DistinctNames(names),
                        LAMBDA n : Len(exactMatches(allComponents, n)) > 1)
  IN [k \in 1..Len(keys) |->
        [name |-> keys[k], components |-> exactMatches(allComponents, keys[k])]]

\* Array.from(nameMap.values()): the single match of every requested name
\* that has exactly one, once per name.
nameMapValues(allComponents, names) ==
  LET keys == SelectSeq(DistinctNames(names),
                        LAMBDA n : Len(exactMatches(allComponents, n)) = 1)
  IN [k \in 1..Len(keys) |-> exactMatches(allComponents, keys[k])[1]]

\* The final guard left out: an empty list is returned like any other.
EmptyIsAccepted(filteredComponents) == FALSE

\* The final guard of fetchComponents: an empty list is fatal.
EmptyIsFatal(filteredComponents) == Len(filteredComponents) = 0

\* The body of fetchComponents after extraction: the list it returns, or the
\* process.exit(1) it takes and why.  A section string or a name list is
\* "given" when it is truthy / non-empty.
fetchComponents(allComponents, names, all, section) ==
  LET bySection == IF section # <<>> THEN SectionFilter(allComponents, section)
                   ELSE allComponents
      dups == duplicates(allComponents, names)
      filtered == IF Len(names) > 0 THEN nameMapValues(allComponents, names)
                  ELSE bySection
  IN IF section # <<>> /\ Len(bySection) = 0
     THEN [fatal |-> TRUE, why |-> "section", components |-> <<>>, duplicates |-> <<>>]
     ELSE IF Len(names) > 0 /\ Len(dups) > 0
     THEN [fatal |-> TRUE, why |-> "duplicates", components |-> <<>>, duplicates |-> dups]
     ELSE IF Len(names) = 0 /\ ~all /\ section = <<>>
     THEN [fatal |-> TRUE, why |-> "no names", components |-> <<>>, duplicates |-> <<>>]
     ELSE IF EmptyIsFatal(filtered)
     THEN [fatal |-> TRUE, why |-> "empty", components |-> <<>>, duplicates |-> <<>>]
     ELSE [fatal |-> FALSE, why |-> "ok", components |-> filtered, duplicates |-> <<>>]

\* findDuplicateComponents grouping every extracted component, whatever
\* the prefix of its name.
findDuplicateComponentsAnyPrefix(allComponents) ==
  LET keys == SelectSeq(DistinctNames([k \in 1..Len(allComponents) |-> allComponents[k].name]),
                        LAMBDA n : Len(exactMatches(allComponents, n)) > 1)
  IN [k \in 1..Len(keys) |->
        [name |-> keys[k], components |-> exactMatches(allComponents, keys[k])]]

\* The duplicates Map of findDuplicateComponents: names with an icon/ or img/
\* prefix carried by more than one extracted component.
findDuplicateComponents(allComponents) ==
  LET relevantComponents ==
        SelectSeq(allComponents,
                  LAMBDA c : StartsWith(c.name, IconPrefix) \/ StartsWith(c.name, ImgPrefix))
      keys == SelectSeq(DistinctNames([k \in 1..Len(relevantComponents) |->
                                         relevantComponents[k].name]),
                        LAMBDA n : Len(exactMatches(relevantComponents, n)) > 1)
  IN [k \in 1..Len(keys) |->
        [name |-> keys[k], components |-> exactMatches(relevantComponents, keys[k])]]

(***************************************************************************)
(* Configuration (loadConfig).                                             *)
(***************************************************************************)

\* The platforms loadConfig accepts.
Platforms == {"android", "ios"}

\* The reason loadConfig exits, or "ok".
configError(file) ==
  IF ~file.exists THEN "not found"
  ELSE IF file.fileId = Null THEN "fileId"
  ELSE IF file.platform = Null THEN "platform"
  ELSE IF file.platform \notin Platforms THEN "platform value"
  ELSE "ok"

\* The configuration loadConfig returns for a valid file: absent (falsy)
\* values are replaced by the platform's defaults.  An absent prefix or
\* path is the empty string, an absent format is Null.
loadConfig(file) ==
  LET android == file.platform = "android"
      OrElse(v, absent, d) == IF v = absent THEN d ELSE v
  IN [fileId |-> file.fileId,
      platform |-> file.platform,
      pageId |-> file.pageId,
      pageName |-> file.pageName,
      icons |-> [path |-> OrElse(file.iconsPath, "", IF android THEN "res" ELSE "Assets.xcassets"),
                 prefix |-> OrElse(file.iconsPrefix, <<>>,
                                   IF android THEN <<"i", "c", "_">> ELSE <<>>)],
      images |-> [path |-> OrElse(file.imagesPath, "", IF android THEN "res" ELSE "Assets.xcassets"),
                  format |-> OrElse(file.imagesFormat, Null, IF android THEN "webp" ELSE "png"),
                  quality |-> OrElse(file.imagesQuality, 0, 90),
                  prefix |-> OrElse(file.imagesPrefix, <<>>,
                                    IF android THEN <<"i", "m", "g", "_">> ELSE <<>>),
                  skipDpi |-> file.skipDpi]]

(***************************************************************************)
(* Output naming and the file system.                                      *)
(***************************************************************************)

\* Platform-specific scales, in hundredths (0.75 is 75).
ANDROID_DPI_SCALES ==
  [ldpi |-> 75, mdpi |-> 100, hdpi |-> 150, xhdpi |-> 200, xxhdpi |-> 300, xxxhdpi |-> 400]

\* The table without its first entry: five DPIs.
AndroidDpiKeysWithoutLdpi == <<"mdpi", "hdpi", "xhdpi", "xxhdpi", "xxxhdpi">>

\* Object.keys(ANDROID_DPI_SCALES), in insertion order.
AndroidDpiKeys == <<"ldpi", "mdpi", "hdpi", "xhdpi", "xxhdpi", "xxxhdpi">>

IOS_SCALES ==
  [k \in {"1x", "2x", "3x", "ipad_1x", "ipad_2x"} |->
     CASE k = "1x" -> 100 [] k = "2x" -> 200 [] k = "3x" -> 300
       [] k = "ipad_1x" -> 200 [] k = "ipad_2x" -> 300]

\* Object.entries(IOS_SCALES), keys in insertion order.
IosScaleKeys == <<"1x", "2x", "3x", "ipad_1x", "ipad_2x">>

\* The suffix appended to fileNameBase for an iOS scale (scaleFileName).
scaleFileName(scale) ==
  CASE scale = "1x" -> ""
    [] scale = "2x" -> "@2x"
    [] scale = "3x" -> "@3x"
    [] scale = "ipad_1x" -> "~ipad"
    [] scale = "ipad_2x" -> "~ipad@2x"

\* name.replace(prefix, '').replace(/\s+/g, '_').toLowerCase()
sanitizedName(name, prefix) ==
  ToLowerCase(ReplaceWhitespaceRuns(ReplaceFirst(name, prefix, <<>>)))

\* `${config.icons.prefix}${sanitizedName}` of an icon component.
iconFileName(cfg, component) == cfg.icons.prefix \o sanitizedName(component.name, IconPrefix)

\* `${config.images.prefix}${sanitizedName}` of an image component.
fileNameBase(cfg, component) == cfg.images.prefix \o sanitizedName(component.name, ImgPrefix)

\* A path is root/dir/file.  dir is "drawable", "drawable-<dpi>" or, with
\* dirBase, "<dirBase>.imageset"; file is "<base><suffix>.<ext>".
FilePath(root, dir, dirBase, base, suffix, ext) ==
  [root |-> root, dir |-> dir, dirBase |-> dirBase, base |-> base, suffix |-> suffix, ext |-> ext]

DirPath(root, dir, dirBase) == [root |-> root, dir |-> dir, dirBase |-> dirBase]

\* The directory a file path lies in.
DirOf(p) == DirPath(p.root, p.dir, p.dirBase)

\* path.join(config.icons.path, 'drawable')
iconDrawablePath(cfg) == DirPath(cfg.icons.path, "drawable", <<>>)

\* path.join(config.images.path, `drawable-${dpi}`)
imageDrawablePath(cfg, dpi) ==
  DirPath(cfg.images.path,
          CASE dpi = "ldpi" -> "drawable-ldpi" [] dpi = "mdpi" -> "drawable-mdpi"
            [] dpi = "hdpi" -> "drawable-hdpi" [] dpi = "xhdpi" -> "drawable-xhdpi"
            [] dpi = "xxhdpi" -> "drawable-xxhdpi" [] dpi = "xxxhdpi" -> "drawable-xxxhdpi",
          <<>>)

\* path.join(root, `${fileName}.imageset`)
assetPath(root, fileName) == DirPath(root, "imageset", fileName)

\* A file inside a directory.
InDir(d, base, suffix, ext) == FilePath(d.root, d.dir, d.dirBase, base, suffix, ext)

\* path.join(assetPath, 'Contents.json')
contentsPath(d) == InDir(d, <<>>, "Contents", "json")

\* fs.writeFile: the file at path p is created or replaced; `by` is the
\* component it was written for, `content` the manifest entries when the
\* file is a Contents.json (<<>> for an asset file).
writeFile(fs, p, by, content) ==
  {f \in fs : f.path # p} \cup {[path |-> p, by |-> by, content |-> content]}

\* createContentsJson(name, format): the images array of the manifest.
createContentsJson(name, format) ==
  LET entry(suffix, idiom, scale) ==
        [base |-> name, suffix |-> suffix, ext |-> format, idiom |-> idiom, scale |-> scale]
  IN IF format = "svg"
     THEN <<entry("", "universal", "")>>
     ELSE <<entry("", "universal", "1x"), entry("@2x", "universal", "2x"),
            entry("@3x", "universal", "3x"), entry("~ipad", "ipad", "1x"),
            entry("~ipad@2x", "ipad", "2x")>>

\* fs.emptyDir leaving the files of the directory in place.
emptyDirKeepingFiles(fs, d) == fs

\* fs.emptyDir: every file of the directory is removed.
emptyDir(fs, d) == {f \in fs : DirOf(f.path) # d}

\* dpisToProcess paying no attention to the skip-list.
dpisToProcessUnskipped(cfg) == AndroidDpiKeys

\* The DPIs of the table that the skip-list leaves, in table order.
dpisToProcess(cfg) ==
  SelectSeq(AndroidDpiKeys, LAMBDA dpi : dpi \notin cfg.images.skipDpi)

\* The resolution variants taken from the end of the table to its start.
variantsOfLastFirst(cfg) ==
  LET t == IF cfg.platform = "android" THEN dpisToProcess(cfg) ELSE IosScaleKeys
  IN [k \in 1..Len(t) |-> t[Len(t) + 1 - k]]

\* The resolution variants of an image component on the platform.
variantsOf(cfg) == IF cfg.platform = "android" THEN dpisToProcess(cfg) ELSE IosScaleKeys

\* iconComponents letting every resolved component into the icon pipeline.
iconComponentsUnfiltered(components) == components

\* components.filter(component => component.name.startsWith('icon/'))
iconComponents(components) == SelectSeq(components, LAMBDA c : StartsWith(c.name, IconPrefix))

\* components.filter(component => component.name.startsWith('img/'))
imageComponents(components) == SelectSeq(components, LAMBDA c : StartsWith(c.name, ImgPrefix))

(***************************************************************************)
(* The run.  The first five variables are the invocation (environment and *)
(* command line); they never change.  The configuration file and the      *)
(* document are recorded when the run reads them.                          *)
(***************************************************************************)
VARIABLES
  token,               \* FIGMA_TOKEN is set
  componentNames,      \* program.args
  downloadAll,         \* --all
  findDuplicate,       \* --find-duplicate
  sectionName,         \* --section (<<>> when absent)
  configFile,          \* the YAML configuration file, once read
  fileData,            \* the document the API returned for the file id
  visits,              \* the visitor's invocations in extractComponents' second pass
  allComponents,       \* extractComponents' result for that document
  pc,                  \* the statement the run is at
  exitCode,            \* -1 while running, then the exit status
  config,              \* loadConfig()'s result
  components,          \* the resolved list fetchComponents returns
  reported,            \* duplicate groups printed before exiting
  iconUrls,            \* ids with a URL in the icon batch response
  iconCounter,         \* processIcons: icons handled so far
  imageCounter,        \* processImages: index of the current image
  variantIndex,        \* processImages: index of the current variant
  failed,              \* processImages: the current component's flag
  processedIconNames,  \* processIcons' result
  processedImageNames, \* processImages' result
  notProcessed,        \* the final not-processed summary
  files,               \* output files: path and the component written
  dirs,                \* output directories created
  requests,            \* render-URL requests issued (getImageUrls)
  attempts,            \* component / variant steps begun, with outcome
  faultsLeft,          \* failures the environment may still inject
  earlierRuns          \* the earlier runs of the invocation: how each ended, what it left

invocation == <<token, componentNames, downloadAll, findDuplicate, sectionName>>

vars == <<token, componentNames, downloadAll, findDuplicate, sectionName,
          configFile, fileData, visits, allComponents, pc, exitCode, config, components, reported,
          iconUrls, iconCounter, imageCounter, variantIndex, failed,
          processedIconNames, processedImageNames, notProcessed, files, dirs,
          requests, attempts, faultsLeft, earlierRuns>>

\* The configuration before loadConfig has run.
NoConfig ==
  [fileId |-> Null, platform |-> Null, pageId |-> <<>>, pageName |-> <<>>,
   icons |-> [path |-> "", prefix |-> <<>>],
   images |-> [path |-> "", format |-> Null, quality |-> 0, prefix |-> <<>>, skipDpi |-> {}]]

\* The configuration file before it is read.
NoConfigFile ==
  [exists |-> FALSE, fileId |-> Null, platform |-> Null, pageId |-> <<>>, pageName |-> <<>>,
   iconsPath |-> "", iconsPrefix |-> <<>>, imagesPath |-> "", imagesFormat |-> Null,
   imagesQuality |-> 0, imagesPrefix |-> <<>>, skipDpi |-> {}]

\* The state after the module's top-level declarations, for one invocation.
InitWith(tok, names, all, dup, section, faults) ==
  /\ token = tok
  /\ componentNames = names
  /\ downloadAll = all
  /\ findDuplicate = dup
  /\ sectionName = section
  /\ configFile = NoConfigFile
  /\ fileData = <<>>
  /\ visits = <<>>
  /\ allComponents = <<>>
  /\ pc = "start"
  /\ exitCode = -1
  /\ config = NoConfig
  /\ components = <<>>
  /\ reported = <<>>
  /\ iconUrls = {}
  /\ iconCounter = 0
  /\ imageCounter = 0
  /\ variantIndex = 0
  /\ failed = FALSE
  /\ processedIconNames = {}
  /\ processedImageNames = {}
  /\ notProcessed = <<>>
  /\ files = {}
  /\ dirs = {}
  /\ requests = <<>>
  /\ attempts = <<>>
  /\ faultsLeft = faults
  /\ earlierRuns = <<>>

\* process.exit(code), or the end of main.
Exit(code) == /\ pc' = "exit"
              /\ exitCode' = code

\* One failure injected by the environment.
Fault == /\ faultsLeft > 0
         /\ faultsLeft' = faultsLeft - 1

NoFault == UNCHANGED faultsLeft

\* Top-level code: the token check and the usage message.
Startup ==
  /\ pc = "start"
  /\ IF ~token THEN Exit(1)
     ELSE IF Len(componentNames) = 0 /\ ~downloadAll /\ ~findDuplicate /\ sectionName = <<>>
     THEN Exit(0)
     ELSE pc' = "main" /\ UNCHANGED exitCode
  /\ UNCHANGED <<invocation, earlierRuns, configFile, fileData, visits, allComponents, config, components, reported,
                 iconUrls, iconCounter,
                 imageCounter, variantIndex, failed, processedIconNames,
                 processedImageNames, notProcessed, files, dirs, requests, attempts,
                 faultsLeft>>

\* main: loadConfig and the --find-duplicate dispatch.
LoadConfigFrom(ConfigFileSet) ==
  /\ pc = "main"
  /\ \E file \in ConfigFileSet :
       /\ configFile' = file
       /\ IF configError(file) # "ok"
          THEN Exit(1) /\ UNCHANGED config
          ELSE /\ config' = loadConfig(file)
               /\ pc' = IF findDuplicate THEN "findDuplicate" ELSE "fetch"
               /\ UNCHANGED exitCode
  /\ UNCHANGED <<invocation, earlierRuns, fileData, visits, allComponents, components, reported, iconUrls,
                 iconCounter,
                 imageCounter, variantIndex, failed, processedIconNames,
                 processedImageNames, notProcessed, files, dirs, requests, attempts,
                 faultsLeft>>

\* main with --find-duplicate: report and return.
FindDuplicateComponentsFrom(DocumentSet) ==
  /\ pc = "findDuplicate"
  /\ \/ /\ Fault                          \* the file request fails
        /\ Exit(1)
        /\ UNCHANGED <<reported, fileData, visits, allComponents>>
     \/ \E doc \in DocumentSet :
          /\ NoFault
          /\ fileData' = doc
          /\ visits' = Visits(doc, config.pageId, config.pageName)
          /\ allComponents' = extractComponents(doc, config.pageId, config.pageName)
          /\ reported' = findDuplicateComponents(allComponents')
          /\ Exit(0)
  /\ UNCHANGED <<invocation, earlierRuns, configFile, config, components, iconUrls, iconCounter,
                 imageCounter, variantIndex, failed, processedIconNames,
                 processedImageNames, notProcessed, files, dirs, requests, attempts>>

\* main: fetchComponents.
FetchComponentsFrom(DocumentSet) ==
  /\ pc = "fetch"
  /\ \/ /\ Fault                          \* the file request fails
        /\ Exit(1)
        /\ UNCHANGED <<components, reported, fileData, visits, allComponents>>
     \/ \E doc \in DocumentSet :
          /\ NoFault
          /\ fileData' = doc
          /\ visits' = Visits(doc, config.pageId, config.pageName)
          /\ allComponents' = extractComponents(doc, config.pageId, config.pageName)
          /\ LET r == fetchComponents(allComponents', componentNames, downloadAll, sectionName)
             IN IF r.fatal
                THEN Exit(1) /\ reported' = r.duplicates /\ UNCHANGED components
                ELSE /\ components' = r.components
                     /\ pc' = "icons"
                     /\ UNCHANGED <<exitCode, reported>>
  /\ UNCHANGED <<invocation, earlierRuns, configFile, config, iconUrls, iconCounter,
                 imageCounter, variantIndex, failed, processedIconNames,
                 processedImageNames, notProcessed, files, dirs, requests, attempts>>

\* A render-URL request: getImageUrls(fileId, components, format, scale).
ImageUrlRequest(cs, format, scale) ==
  [ids |-> [k \in 1..Len(cs) |-> cs[k].id], format |-> format, scale |-> scale]

\* The steps of one icon at which the environment may fail it.  A failing
\* optimizer ("optimize") is absorbed by optimizeSvg; every other failure
\* throws into the per-icon catch.
IconOutcomes(platform) ==
  IF platform = "android"
  THEN {"ok", "optimize", "download", "convert", "ensureDir", "write"}
  ELSE {"ok", "optimize", "download", "ensureDir", "emptyDir", "writeSvg", "writeContents"}

\* The steps of one Android DPI variant at which the environment may fail it.
AndroidVariantOutcomes(format) ==
  {"ok", "ensureDir", "urls", "noUrl", "download", "write"}
    \cup (IF format = "webp" THEN {"encode"} ELSE {})

\* The steps of one iOS scale variant at which the environment may fail it.
IosVariantOutcomes == {"ok", "urls", "noUrl", "download", "write"}

\* processIcons up to the batched getImageUrls.
ProcessIconsStart ==
  /\ pc = "icons"
  /\ LET ics == iconComponents(components)
     IN IF Len(ics) = 0
        THEN /\ pc' = "images"
             /\ NoFault
             /\ UNCHANGED <<iconUrls, requests>>
        ELSE /\ requests' = Append(requests, ImageUrlRequest(ics, "svg", 100))
             /\ \/ /\ Fault                \* getImageUrls throws: return []
                   /\ pc' = "images"
                   /\ UNCHANGED iconUrls
                \/ \E missing \in SUBSET {ics[k].id : k \in 1..Len(ics)} :
                     /\ Cardinality(missing) <= faultsLeft
                     /\ faultsLeft' = faultsLeft - Cardinality(missing)
                     /\ iconUrls' = {ics[k].id : k \in 1..Len(ics)} \ missing
                     /\ pc' = "iconLoop"
  /\ iconCounter' = 0
  /\ processedIconNames' = {}
  /\ UNCHANGED <<invocation, earlierRuns, configFile, fileData, visits, allComponents, exitCode, config, components, reported,
                 imageCounter, variantIndex, failed,
                 processedImageNames, notProcessed, files, dirs, attempts>>

\* One iteration of processIcons' loop.
ProcessIcon ==
  /\ pc = "iconLoop"
  /\ LET ics == iconComponents(components)
         component == ics[iconCounter + 1]
         fileName == iconFileName(config, component)
         android == config.platform = "android"
         dir == IF android THEN iconDrawablePath(config)
                ELSE assetPath(config.icons.path, fileName)
         asset == InDir(dir, fileName, "", IF android THEN "xml" ELSE "svg")
     IN /\ iconCounter' = iconCounter + 1
        /\ pc' = IF iconCounter + 1 = Len(ics) THEN "images" ELSE "iconLoop"
        /\ IF component.id \notin iconUrls
           THEN /\ NoFault
                /\ attempts' = Append(attempts, [id |-> component.id, variant |-> "svg", ok |-> FALSE])
                /\ UNCHANGED <<files, dirs, processedIconNames>>
           ELSE \E outcome \in IconOutcomes(config.platform) :
                  /\ IF outcome = "ok" THEN NoFault ELSE Fault
                  /\ attempts' = Append(attempts, [id |-> component.id, variant |-> "svg",
                                                   ok |-> outcome \in {"ok", "optimize"}])
                  /\ dirs' = IF outcome \in {"download", "convert", "ensureDir"}
                             THEN dirs ELSE dirs \cup {dir}
                  /\ files' =
                       IF android
                       THEN IF outcome \in {"ok", "optimize"}
                            THEN writeFile(files, asset, component.id, <<>>)
                            ELSE files
                       ELSE CASE outcome \in {"download", "ensureDir", "emptyDir"} -> files
                              [] outcome = "writeSvg" -> emptyDir(files, dir)
                              [] outcome = "writeContents" ->
                                   writeFile(emptyDir(files, dir), asset, component.id, <<>>)
                              [] OTHER ->
                                   writeFile(writeFile(emptyDir(files, dir), asset, component.id, <<>>),
                                             contentsPath(dir), component.id,
                                             createContentsJson(fileName, config.images.format))
                  /\ processedIconNames' =
                       IF outcome \in {"ok", "optimize"}
                       THEN processedIconNames \cup {component.name}
                       ELSE processedIconNames
  /\ UNCHANGED <<invocation, earlierRuns, configFile, fileData, visits, allComponents, exitCode, config, components, reported, iconUrls,
                 imageCounter, variantIndex, failed,
                 processedImageNames, notProcessed, requests>>

\* processImages up to its loop.
ProcessImagesStart ==
  /\ pc = "images"
  /\ pc' = IF Len(imageComponents(components)) = 0 THEN "summary" ELSE "imageBegin"
  /\ imageCounter' = 1
  /\ processedImageNames' = {}
  /\ UNCHANGED <<invocation, earlierRuns, configFile, fileData, visits, allComponents, exitCode, config, components, reported, iconUrls,
                 iconCounter, variantIndex, failed, processedIconNames,
                 notProcessed, files, dirs, requests, attempts, faultsLeft>>

\* The head of one iteration of processImages' loop: the names, the flag
\* and, on iOS, the asset catalog folder (outside any try).
ImageBegin ==
  /\ pc = "imageBegin"
  /\ LET component == imageComponents(components)[imageCounter]
         dir == assetPath(config.images.path, fileNameBase(config, component))
     IN IF config.platform = "android"
        THEN /\ pc' = IF Len(variantsOf(config)) = 0 THEN "imageEnd" ELSE "imageVariant"
             /\ NoFault
             /\ UNCHANGED <<exitCode, files, dirs>>
        ELSE \/ /\ NoFault
                /\ dirs' = dirs \cup {dir}
                /\ files' = emptyDir(files, dir)
                /\ pc' = "imageVariant"
                /\ UNCHANGED exitCode
             \/ /\ Fault                   \* ensureDir throws
                /\ Exit(1)
                /\ UNCHANGED <<files, dirs>>
             \/ /\ Fault                   \* emptyDir throws
                /\ dirs' = dirs \cup {dir}
                /\ Exit(1)
                /\ UNCHANGED files
  /\ failed' = FALSE
  /\ variantIndex' = 1
  /\ UNCHANGED <<invocation, earlierRuns, configFile, fileData, visits, allComponents, config, components, reported, iconUrls,
                 iconCounter, imageCounter, processedIconNames, processedImageNames,
                 notProcessed, requests, attempts>>

\* One Android DPI variant of the current image component.
AndroidVariant ==
  /\ pc = "imageVariant"
  /\ config.platform = "android"
  /\ LET component == imageComponents(components)[imageCounter]
         dpi == variantsOf(config)[variantIndex]
         dir == imageDrawablePath(config, dpi)
         filePath == InDir(dir, fileNameBase(config, component), "", config.images.format)
     IN \E outcome \in AndroidVariantOutcomes(config.images.format) :
          /\ IF outcome = "ok" THEN NoFault ELSE Fault
          /\ attempts' = Append(attempts, [id |-> component.id, variant |-> dpi,
                                           ok |-> outcome = "ok"])
          /\ dirs' = IF outcome = "ensureDir" THEN dirs ELSE dirs \cup {dir}
          /\ requests' = IF outcome = "ensureDir" THEN requests
                         ELSE Append(requests,
                                     ImageUrlRequest(<<component>>, "png", ANDROID_DPI_SCALES[dpi]))
          /\ files' = IF outcome = "ok" THEN writeFile(files, filePath, component.id, <<>>)
                      ELSE files
          /\ failed' = (failed \/ outcome # "ok")
  /\ variantIndex' = variantIndex + 1
  /\ pc' = IF variantIndex = Len(variantsOf(config)) THEN "imageEnd" ELSE "imageVariant"
  /\ UNCHANGED <<invocation, earlierRuns, configFile, fileData, visits, allComponents, exitCode, config, components, reported, iconUrls,
                 iconCounter, imageCounter, processedIconNames, processedImageNames,
                 notProcessed>>

\* One iOS scale variant of the current image component.
IosVariant ==
  /\ pc = "imageVariant"
  /\ config.platform = "ios"
  /\ LET component == imageComponents(components)[imageCounter]
         scale == variantsOf(config)[variantIndex]
         base == fileNameBase(config, component)
         dir == assetPath(config.images.path, base)
         filePath == InDir(dir, base, scaleFileName(scale), config.images.format)
     IN \E outcome \in IosVariantOutcomes :
          /\ IF outcome = "ok" THEN NoFault ELSE Fault
          /\ attempts' = Append(attempts, [id |-> component.id, variant |-> scale,
                                           ok |-> outcome = "ok"])
          /\ requests' = Append(requests,
                                ImageUrlRequest(<<component>>, config.images.format, IOS_SCALES[scale]))
          /\ files' = IF outcome = "ok" THEN writeFile(files, filePath, component.id, <<>>)
                      ELSE files
          /\ IF outcome = "urls"           \* getImageUrls throws, outside the try
             THEN Exit(1) /\ UNCHANGED <<failed, variantIndex>>
             ELSE /\ failed' = (failed \/ outcome # "ok")
                  /\ variantIndex' = variantIndex + 1
                  /\ pc' = IF variantIndex = Len(variantsOf(config))
                           THEN "imageEnd" ELSE "imageVariant"
                  /\ UNCHANGED exitCode
  /\ UNCHANGED <<invocation, earlierRuns, configFile, fileData, visits, allComponents, config, components, reported, iconUrls,
                 iconCounter, imageCounter, processedIconNames, processedImageNames,
                 notProcessed, dirs>>

\* The tail of one iteration of processImages' loop: the iOS manifest and
\* the processed-name set.
ImageEnd ==
  /\ pc = "imageEnd"
  /\ LET imgs == imageComponents(components)
         component == imgs[imageCounter]
         base == fileNameBase(config, component)
         dir == assetPath(config.images.path, base)
         finish == /\ processedImageNames' =
                        IF failed THEN processedImageNames
                        ELSE processedImageNames \cup {component.name}
                   /\ imageCounter' = imageCounter + 1
                   /\ pc' = IF imageCounter = Len(imgs) THEN "summary" ELSE "imageBegin"
                   /\ UNCHANGED exitCode
     IN IF config.platform = "android"
        THEN finish /\ NoFault /\ UNCHANGED files
        ELSE \/ /\ NoFault
                /\ files' = writeFile(files, contentsPath(dir), component.id,
                                      createContentsJson(base, config.images.format))
                /\ finish
             \/ /\ Fault                   \* writing Contents.json throws
                /\ Exit(1)
                /\ UNCHANGED <<files, processedImageNames, imageCounter>>
  /\ UNCHANGED <<invocation, earlierRuns, configFile, fileData, visits, allComponents, config, components, reported, iconUrls,
                 iconCounter, variantIndex, failed, processedIconNames,
                 notProcessed, dirs, requests, attempts>>

\* main after the pipelines: the not-processed summary, then a normal end.
Summary ==
  /\ pc = "summary"
  /\ LET allProcessedComponentNames == processedIconNames \cup processedImageNames
         unprocessedComponentNames ==
           SelectSeq(componentNames, LAMBDA n : n \notin allProcessedComponentNames)
     IN notProcessed' =
          [k \in 1..Len(unprocessedComponentNames) |->
             [name |-> unprocessedComponentNames[k],
              notFound |-> ~\E i \in 1..Len(components) :
                              components[i].name = unprocessedComponentNames[k]]]
  /\ Exit(0)
  /\ UNCHANGED <<invocation, earlierRuns, configFile, fileData, visits, allComponents, config, components, reported, iconUrls,
                 iconCounter, imageCounter, variantIndex, failed, processedIconNames,
                 processedImageNames, files, dirs, requests, attempts, faultsLeft>>

\* The run is over and every step of it succeeded: it ended normally, every
\* icon was written and every variant of every image was written.
EveryStepSucceeded ==
  /\ pc = "exit" /\ exitCode = 0 /\ components # <<>>
  /\ \A k \in 1..Len(attempts) : attempts[k].ok
  /\ \A c \in Range(iconComponents(components)) :
       \E k \in 1..Len(attempts) : attempts[k].id = c.id
  /\ \A c \in Range(imageComponents(components)) :
       \A v \in Range(variantsOf(config)) :
         \E k \in 1..Len(attempts) : attempts[k].id = c.id /\ attempts[k].variant = v

\* The user invokes the tool again with the same command line: a new
\* process starts from the top-level declarations, on the output directory
\* the earlier runs left.
RerunUpTo(maxRuns) ==
  /\ pc = "exit"
  /\ Len(earlierRuns) + 1 < maxRuns
  /\ earlierRuns' = Append(earlierRuns, [exitCode |-> exitCode,
                                         succeeded |-> EveryStepSucceeded,
                                         files |-> files, dirs |-> dirs])
  /\ pc' = "start"
  /\ exitCode' = -1
  /\ config' = NoConfig
  /\ visits' = <<>>
  /\ allComponents' = <<>>
  /\ components' = <<>>
  /\ reported' = <<>>
  /\ iconUrls' = {}
  /\ iconCounter' = 0
  /\ imageCounter' = 0
  /\ variantIndex' = 0
  /\ failed' = FALSE
  /\ processedIconNames' = {}
  /\ processedImageNames' = {}
  /\ notProcessed' = <<>>
  /\ requests' = <<>>
  /\ attempts' = <<>>
  /\ UNCHANGED <<invocation, configFile, fileData, files, dirs, faultsLeft>>

(***************************************************************************)
(* The inputs of the runs that are checked.                                *)
(***************************************************************************)

\* The most COMPONENT nodes in a document.
MaxComponents == 3

\* The most names on the command line.
MaxNames == 2

\* The most failures injected into one run.
MaxFaults == 2

\* Sequences over S of length at most n.
SeqsUpTo(S, n) == UNION {[1..k -> S] : k \in 0..n}

\* Component names.
IconA == IconPrefix \o <<"a">>

IconB == IconPrefix \o <<"B">>

ImgA == ImgPrefix \o <<"a">>

ImgUpperA == ImgPrefix \o <<"A">>

BtnA == <<"b", "t", "n", "/", "a">>

\* A name no component carries, contained in the icon names.
IconSlash == IconPrefix

\* The names of the two frames a component can lie in.
FrameNames == << <<"U", "I">>, <<"a", "r", "t">> >>

\* The components a document is built from: a name and the frame it lies in.
ComponentPool ==
  {[name |-> IconA, frame |-> 1], [name |-> IconB, frame |-> 1],
   [name |-> ImgA, frame |-> 2], [name |-> ImgUpperA, frame |-> 2],
   [name |-> BtnA, frame |-> 1]}

\* Node identifiers of the COMPONENT nodes, by position in the document.
ComponentIds == <<"1:1", "1:2", "1:3", "1:4", "1:5", "1:6">>

Node(depth, id, name, type) ==
  [depth |-> depth, id |-> id, name |-> name, type |-> type, componentSetId |-> Null]

\* The document D > P (a page) > UI, art (two frames), with the placed
\* components under their frames, in placement order.
MakeDocument(placed) ==
  LET inFrame(f) ==
        ConcatAll([k \in 1..Len(placed) |->
                     IF placed[k].frame = f
                     THEN <<Node(3, ComponentIds[k], placed[k].name, "COMPONENT")>>
                     ELSE <<>>])
  IN <<Node(0, "0:0", <<"D">>, "DOCUMENT"), Node(1, "0:1", <<"P">>, "CANVAS"),
       Node(2, "0:2", FrameNames[1], "FRAME")>> \o inFrame(1)
     \o <<Node(2, "0:3", FrameNames[2], "FRAME")>> \o inFrame(2)

Documents == {MakeDocument(placed) : placed \in SeqsUpTo(ComponentPool, MaxComponents)}

\* The names a command line is built from.
RequestPool == {IconA, IconB, ImgA, BtnA, IconSlash}

\* --section values: absent, a frame name, the same in another case, a part
\* of a path across a separator, and a string in no path.
Sections == {<<>>, <<"U", "I">>, <<"u", "i">>, <<"I", " ", "/", " ", "i">>, <<"z">>}

\* The command lines: explicit names alone, --all or --section alone or
\* together, and one name together with the other selectors.
Invocations ==
  {[names |-> n, all |-> FALSE, section |-> <<>>] : n \in SeqsUpTo(RequestPool, MaxNames)}
  \cup {[names |-> <<>>, all |-> a, section |-> sec] : a \in BOOLEAN, sec \in Sections}
  \cup {[names |-> <<n>>, all |-> a, section |-> sec] :
          n \in {IconA, ImgA}, a \in BOOLEAN, sec \in {<<>>, <<"U", "I">>, <<"z">>}}

\* A configuration file that sets nothing but the required fields.
ConfigFile(platform) ==
  [NoConfigFile EXCEPT !.exists = TRUE, !.fileId = "FILE", !.platform = platform]

\* The configuration files: Android and iOS with the defaults (Android
\* skipping ldpi and mdpi), one without platform, one with a platform the
\* tool does not know, one without fileId, and none at all.
ConfigFiles ==
  {[ConfigFile("android") EXCEPT !.skipDpi = {"ldpi", "mdpi"}],
   ConfigFile("ios"),
   ConfigFile(Null),
   ConfigFile("web"),
   [ConfigFile("android") EXCEPT !.fileId = Null],
   NoConfigFile}

\* --find-duplicate goes with the command lines of at most one name.
Init ==
  \E tok \in BOOLEAN, inv \in Invocations, dup \in BOOLEAN :
    /\ dup => Len(inv.names) <= 1
    /\ InitWith(tok, inv.names, inv.all, dup, inv.section, MaxFaults)

\* The same invocations in an environment where every request, conversion
\* and write succeeds.
InitNoFaults ==
  \E tok \in BOOLEAN, inv \in Invocations, dup \in BOOLEAN :
    /\ dup => Len(inv.names) <= 1
    /\ InitWith(tok, inv.names, inv.all, dup, inv.section, 0)

LoadConfig == LoadConfigFrom(ConfigFiles)

FindDuplicateComponents == FindDuplicateComponentsFrom(Documents)

FetchComponents == FetchComponentsFrom(Documents)

Next ==
  \/ Startup
  \/ LoadConfig
  \/ FindDuplicateComponents
  \/ FetchComponents
  \/ ProcessIconsStart
  \/ ProcessIcon
  \/ ProcessImagesStart
  \/ ImageBegin
  \/ AndroidVariant
  \/ IosVariant
  \/ ImageEnd
  \/ Summary
(***************************************************************************)
(* Android exports under every skip-list.                                  *)
(***************************************************************************)

\* The most components in a document of these runs, the harness document
\* apart.
MaxAndroidComponents == 2

\* The most failures injected into one of these runs.
MaxAndroidFaults == 1

\* images.skipDpi: every subset of the DPI table.
SkipLists == SUBSET Range(AndroidDpiKeys)

AndroidConfigFiles == {[ConfigFile("android") EXCEPT !.skipDpi = s] : s \in SkipLists}

IconC == IconPrefix \o <<"c">>

ImgB == ImgPrefix \o <<"b">>

ImgC == ImgPrefix \o <<"c">>

\* The document of the repository's test run: three icons and three images.
HarnessDocument ==
  MakeDocument(<<[name |-> IconA, frame |-> 1], [name |-> IconB, frame |-> 1],
                 [name |-> IconC, frame |-> 1], [name |-> ImgA, frame |-> 2],
                 [name |-> ImgB, frame |-> 2], [name |-> ImgC, frame |-> 2]>>)

AndroidDocuments ==
  {MakeDocument(placed) : placed \in SeqsUpTo(ComponentPool, MaxAndroidComponents)}
    \cup {HarnessDocument}

\* --all with the token set.
InitAndroid ==
  \E faults \in 0..MaxAndroidFaults : InitWith(TRUE, <<>>, TRUE, FALSE, <<>>, faults)

NextAndroid ==
  \/ Startup
  \/ LoadConfigFrom(AndroidConfigFiles)
  \/ FetchComponentsFrom(AndroidDocuments)
  \/ ProcessIconsStart
  \/ ProcessIcon
  \/ ProcessImagesStart
  \/ ImageBegin
  \/ AndroidVariant
  \/ ImageEnd
  \/ Summary

(***************************************************************************)
(* Extraction from documents of every shape, with page selectors.          *)
(***************************************************************************)

\* The most nodes in a document of these runs, the DOCUMENT node included.
MaxNodes == 5

\* Node identifiers, by position in the document.
NodeIds == <<"0:0", "0:1", "0:2", "0:3", "0:4", "0:5", "0:6">>

\* The pages (children of the document) by name: two ordinary names, a name
\* starting with '#' and no name.
PageKinds ==
  <<[type |-> "CANVAS", name |-> <<"P">>], [type |-> "CANVAS", name |-> <<"Q">>],
    [type |-> "CANVAS", name |-> <<"#", "P">>], [type |-> "CANVAS", name |-> <<>>]>>

\* The nodes below a page: a frame with an ordinary name, with a name
\* starting with '#' and with no name, and a component.
InnerKinds ==
  <<[type |-> "FRAME", name |-> <<"U", "I">>], [type |-> "FRAME", name |-> <<"#", "f">>],
    [type |-> "FRAME", name |-> <<>>], [type |-> "COMPONENT", name |-> IconA]>>

\* The pre-order depth sequences of the trees of n nodes.
TreeShapes(n) ==
  {d \in [1..n -> 0..(n - 1)] :
     /\ d[1] = 0
     /\ \A i \in 2..n : d[i] >= 1 /\ d[i] <= d[i - 1] + 1}

\* The documents of at most MaxNodes nodes: a DOCUMENT node, pages below
\* it, frames and components below the pages.
Trees ==
  UNION {{[i \in 1..n |->
             IF d[i] = 0 THEN Node(0, NodeIds[1], <<"D">>, "DOCUMENT")
             ELSE IF d[i] = 1
                  THEN Node(1, NodeIds[i], PageKinds[k[i]].name, PageKinds[k[i]].type)
                  ELSE Node(d[i], NodeIds[i], InnerKinds[k[i]].name, InnerKinds[k[i]].type)] :
            d \in TreeShapes(n), k \in {f \in [1..n -> 1..4] : f[1] = 1}} :
         n \in 1..MaxNodes}

\* pageId and pageName of the configuration: none; a page name; the id of
\* the first page; a frame's name and an id of no node, matching no page;
\* two page names.
PageSelections ==
  {[ids |-> <<>>, names |-> <<>>],
   [ids |-> <<>>, names |-> << <<"P">> >>],
   [ids |-> <<"0:1">>, names |-> <<>>],
   [ids |-> <<"9:9">>, names |-> << <<"U", "I">> >>],
   [ids |-> <<>>, names |-> << <<"P">>, <<"Q">> >>]}

PageConfigFiles ==
  {[ConfigFile("android") EXCEPT !.pageId = s.ids, !.pageName = s.names] :
     s \in PageSelections}

\* --all with the token set, in an environment without failures.
InitExtract == InitWith(TRUE, <<>>, TRUE, FALSE, <<>>, 0)

\* The run up to the end of fetchComponents.
NextExtract ==
  \/ Startup
  \/ LoadConfigFrom(PageConfigFiles)
  \/ FetchComponentsFrom(Trees)

(***************************************************************************)
(* Extraction from documents with pages at any depth and component sets.   *)
(***************************************************************************)

\* The most nodes in a document of these runs.
MaxPageNodes == 5

\* The first child of the document: a page, or a frame the traversal skips.
FirstChildKinds ==
  <<[type |-> "CANVAS", name |-> <<"P">>, componentSetId |-> Null],
    [type |-> "FRAME", name |-> <<"#", "f">>, componentSetId |-> Null]>>

\* The other nodes, at any depth: two pages, a frame the traversal skips,
\* a component set that has the name of a page, and a component that
\* belongs to no set, or names as its set the third or the fifth node of
\* the document (whatever that node is).
NodeKinds ==
  <<[type |-> "CANVAS", name |-> <<"P">>, componentSetId |-> Null],
    [type |-> "CANVAS", name |-> <<"Q">>, componentSetId |-> Null],
    [type |-> "FRAME", name |-> <<"#", "f">>, componentSetId |-> Null],
    [type |-> "COMPONENT_SET", name |-> <<"Q">>, componentSetId |-> Null],
    [type |-> "COMPONENT", name |-> IconA, componentSetId |-> Null],
    [type |-> "COMPONENT", name |-> IconA, componentSetId |-> NodeIds[3]],
    [type |-> "COMPONENT", name |-> IconA, componentSetId |-> NodeIds[5]]>>

\* The documents of at most MaxPageNodes nodes with these nodes below the
\* DOCUMENT node, in every tree shape.
PageTrees ==
  UNION {{[i \in 1..n |->
             LET kind == IF i = 2 THEN FirstChildKinds[k[i]] ELSE NodeKinds[k[i]]
             IN IF i = 1 THEN Node(0, NodeIds[1], <<"D">>, "DOCUMENT")
                ELSE [depth |-> d[i], id |-> NodeIds[i], name |-> kind.name,
                      type |-> kind.type, componentSetId |-> kind.componentSetId]] :
            d \in TreeShapes(n),
            k \in {f \in [1..n -> 1..Len(NodeKinds)] :
                     f[1] = 1 /\ (n >= 2 => f[2] <= Len(FirstChildKinds))}} :
         n \in 1..MaxPageNodes}

\* pageId and pageName of the configuration: none; one page name; two page
\* names; the id of the document's first child together with the name P.
PageTreeSelections ==
  {[ids |-> <<>>, names |-> <<>>],
   [ids |-> <<>>, names |-> << <<"P">> >>],
   [ids |-> <<>>, names |-> << <<"P">>, <<"Q">> >>],
   [ids |-> <<NodeIds[2]>>, names |-> << <<"P">> >>]}

PageTreeConfigFiles ==
  {[ConfigFile("android") EXCEPT !.pageId = s.ids, !.pageName = s.names] :
     s \in PageTreeSelections}

\* The run up to the end of fetchComponents.
NextPages ==
  \/ Startup
  \/ LoadConfigFrom(PageTreeConfigFiles)
  \/ FetchComponentsFrom(PageTrees)

(***************************************************************************)
(* Explicit names on documents with several ambiguous names.               *)
(***************************************************************************)

\* The most components in a document of these runs.
MaxAmbiguityComponents == 4

\* The most names on a command line of these runs.
MaxAmbiguityNames == 3

\* Documents built from two names, so that both can occur twice.
AmbiguityDocuments ==
  {MakeDocument(placed) :
     placed \in SeqsUpTo({[name |-> IconA, frame |-> 1], [name |-> ImgA, frame |-> 2]},
                         MaxAmbiguityComponents)}

\* Explicit names, the token set, no other selector.
InitAmbiguity ==
  \E names \in SeqsUpTo({IconA, ImgA, BtnA}, MaxAmbiguityNames) :
    InitWith(TRUE, names, FALSE, FALSE, <<>>, 0)

\* The run up to the end of fetchComponents.
NextAmbiguity ==
  \/ Startup
  \/ LoadConfigFrom({ConfigFile("android"), ConfigFile("ios")})
  \/ FetchComponentsFrom(AmbiguityDocuments)

(***************************************************************************)
(* The export of what is extracted from documents with pages at any depth. *)
(***************************************************************************)

\* The most failures injected into one of these runs.
MaxPageFaults == 1

\* The most nodes in a document of these runs.
MaxExportNodes == 4

\* The documents with pages at any depth of at most MaxExportNodes nodes.
ExportTrees == {t \in PageTrees : Len(t) <= MaxExportNodes}

\* --all with the token set.
InitPagesExport ==
  \E faults \in 0..MaxPageFaults : InitWith(TRUE, <<>>, TRUE, FALSE, <<>>, faults)

\* The whole run; the components of these documents are icons.
NextPagesExport ==
  \/ Startup
  \/ LoadConfigFrom(PageTreeConfigFiles)
  \/ FetchComponentsFrom(ExportTrees)
  \/ ProcessIconsStart
  \/ ProcessIcon
  \/ ProcessImagesStart
  \/ Summary

(***************************************************************************)
(* Re-running one invocation on the output directory it left.              *)
(***************************************************************************)

\* The most runs of one invocation, the first included.
MaxRuns == 3

\* The most components in a document of these runs.
MaxRerunComponents == 2

\* The most failures injected into the runs of one invocation.
MaxRerunFaults == 2

\* Android writing two DPI variants, and iOS with the defaults (icons and
\* images share the asset catalog).
RerunConfigFiles ==
  {[ConfigFile("android") EXCEPT !.skipDpi = {"ldpi", "mdpi", "hdpi", "xhdpi"}],
   ConfigFile("ios")}

\* An icon and two images; the three share an output name on iOS, the two
\* images on Android too.
RerunPool ==
  {[name |-> IconA, frame |-> 1], [name |-> ImgA, frame |-> 2],
   [name |-> ImgUpperA, frame |-> 2]}

RerunDocuments ==
  {MakeDocument(placed) : placed \in SeqsUpTo(RerunPool, MaxRerunComponents)}

\* --all with the token set.
InitRerun == InitWith(TRUE, <<>>, TRUE, FALSE, <<>>, MaxRerunFaults)

Rerun == RerunUpTo(MaxRuns)

\* Every run of the invocation reads the same configuration file and is
\* given the same document.
NextRerun ==
  \/ Startup
  \/ LoadConfigFrom(IF earlierRuns = <<>> THEN RerunConfigFiles ELSE {configFile})
  \/ FetchComponentsFrom(IF fileData = <<>> THEN RerunDocuments ELSE {fileData})
  \/ ProcessIconsStart
  \/ ProcessIcon
  \/ ProcessImagesStart
  \/ ImageBegin
  \/ AndroidVariant
  \/ IosVariant
  \/ ImageEnd
  \/ Summary
  \/ Rerun

(***************************************************************************)
(* Vocabulary of the properties.                                           *)
(***************************************************************************)

\* The resolver has run on a document (the file request succeeded and
\* --find-duplicate did not divert the run).
Resolving == fileData # <<>> /\ ~findDuplicate

\* How many extracted components carry exactly this name.
MatchCount(n) == Cardinality({k \in 1..Len(allComponents) : allComponents[k].name = n})

\* The requested names with exactly one match.
UniquelyMatched == {n \in Range(componentNames) : MatchCount(n) = 1}

\* Nothing has been requested from the renderer and nothing written.
NothingExported == requests = <<>> /\ files = {} /\ dirs = {} /\ attempts = <<>>

\* The run has ended with a non-zero exit status.
Aborted == pc = "exit" /\ exitCode = 1

\* The extracted components whose joined path contains the section string.
InSection == {k \in 1..Len(allComponents) :
                \E i \in 1..Len(allComponents[k].path) :
                  /\ i + Len(sectionName) - 1 <= Len(allComponents[k].path)
                  /\ \A j \in 1..Len(sectionName) :
                       allComponents[k].path[i + j - 1] = sectionName[j]}

(***************************************************************************)
(* C1.  Explicit-name resolution is all-or-nothing on ambiguity: when a    *)
(* requested name has more than one exact match in the extracted list,    *)
(* the run ends with a non-zero status, no render-URL request is issued   *)
(* and nothing is written, also for requested names that match once.      *)
(***************************************************************************)
C1_AmbiguityAbortsEverything ==
  (Resolving /\ \E n \in Range(componentNames) : MatchCount(n) > 1)
    => Aborted /\ NothingExported /\ components = <<>>

\* A run aborted on an ambiguous name while another requested name has a
\* single match.
C1_Witness ==
  /\ Resolving /\ Aborted
  /\ \E n \in Range(componentNames) : MatchCount(n) > 1
  /\ UniquelyMatched # {}

(***************************************************************************)
(* C2.  With explicit names alone and no ambiguous name, the resolved      *)
(* list holds exactly the components whose whole name equals a requested  *)
(* name with a single match, each once however often the name is asked    *)
(* for; a name without a match is left out and the run goes on as long as  *)
(* one name resolves.                                                      *)
(***************************************************************************)
C2_ExplicitNamesResolveExactly ==
  (/\ Resolving
   /\ componentNames # <<>>
   /\ sectionName = <<>>
   /\ \A n \in Range(componentNames) : MatchCount(n) <= 1)
    => /\ Range(components) = {c \in Range(allComponents) : c.name \in UniquelyMatched}
       /\ Len(components) = Cardinality(UniquelyMatched)
       /\ UniquelyMatched # {} => pc # "fetch" /\ components # <<>>

\* A requested name without a match, which a component's name only
\* contains, is left out beside a requested name that resolved.
C2_Witness ==
  /\ Resolving /\ sectionName = <<>> /\ Len(components) = 1
  /\ \E n \in Range(componentNames) :
       /\ MatchCount(n) = 0
       /\ \E k \in 1..Len(allComponents) :
            /\ Len(n) < Len(allComponents[k].name)
            /\ SubSeq(allComponents[k].name, 1, Len(n)) = n

\* A name asked for twice resolves to one component of a document that
\* holds more.
C2_WitnessRepeated ==
  /\ Resolving /\ sectionName = <<>> /\ Len(components) = 1
  /\ Len(componentNames) = 2 /\ componentNames[1] = componentNames[2]
  /\ Len(allComponents) > 1

(***************************************************************************)
(* C3.  An empty resolved list is fatal in every mode: explicit names that *)
(* all have no match, a section string in no component path, and --all on *)
(* a document without components each end the run with a non-zero status  *)
(* before any render-URL request or write.                                 *)
(***************************************************************************)
C3_EmptyResultIsFatal ==
  (/\ Resolving
   /\ \/ componentNames # <<>> /\ \A n \in Range(componentNames) : MatchCount(n) = 0
      \/ sectionName # <<>> /\ InSection = {}
      \/ componentNames = <<>> /\ sectionName = <<>> /\ downloadAll /\ allComponents = <<>>)
    => Aborted /\ NothingExported /\ components = <<>>

\* Requested names that all miss, on a document that has components.
C3_Witness ==
  /\ Resolving /\ Aborted
  /\ componentNames # <<>> /\ sectionName = <<>>
  /\ \A n \in Range(componentNames) : MatchCount(n) = 0
  /\ allComponents # <<>>

\* --all on a document without components.
C3_WitnessAll ==
  /\ Resolving /\ Aborted
  /\ componentNames = <<>> /\ sectionName = <<>> /\ downloadAll /\ allComponents = <<>>

\* A section string in no path of a document that has components.
C3_WitnessSection ==
  /\ Resolving /\ Aborted
  /\ componentNames = <<>> /\ sectionName # <<>> /\ InSection = {} /\ allComponents # <<>>

\* The output file of one variant of an image component.
VariantFile(c, v) ==
  IF config.platform = "android"
  THEN InDir(imageDrawablePath(config, v), fileNameBase(config, c), "", config.images.format)
  ELSE InDir(assetPath(config.images.path, fileNameBase(config, c)), fileNameBase(config, c),
             scaleFileName(v), config.images.format)

\* Every required variant of this image component was fetched and written.
AllVariantsWritten(c) ==
  \A v \in Range(variantsOf(config)) :
    \E k \in 1..Len(attempts) :
      attempts[k].id = c.id /\ attempts[k].variant = v /\ attempts[k].ok

\* This icon component was fetched, converted and written.
IconWritten(c) ==
  \E k \in 1..Len(attempts) :
    attempts[k].id = c.id /\ attempts[k].variant = "svg" /\ attempts[k].ok

\* A resolved component carries this name.
ResolvedName(n) == \E k \in 1..Len(components) : components[k].name = n

(***************************************************************************)
(* C4.  In the image pipeline, on both platforms, the failure of one       *)
(* variant (render-URL fetch, download, encode or write) does not keep     *)
(* the loop from going on to the remaining variants and components: the    *)
(* step in which a variant fails never ends the run.                       *)
(***************************************************************************)
C4_VariantFailureIsIsolated ==
  [][(/\ pc = "imageVariant"
      /\ Len(attempts') = Len(attempts) + 1
      /\ ~attempts'[Len(attempts')].ok)
       => pc' \in {"imageVariant", "imageEnd"}]_vars

(***************************************************************************)
(* C5.  No partial credit, no rollback: at the end of the image pipeline   *)
(* the name of an image component is in the processed-name set exactly     *)
(* when every required variant of that component was fetched and written,  *)
(* and the file of every variant that succeeded is present.                *)
(***************************************************************************)
C5_ProcessedIffAllVariants ==
  pc = "summary" =>
    /\ \A c \in Range(imageComponents(components)) :
         c.name \in processedImageNames <=> AllVariantsWritten(c)
    /\ \A c \in Range(imageComponents(components)) :
         \A k \in 1..Len(attempts) :
           (attempts[k].id = c.id /\ attempts[k].ok)
             => \E f \in files : f.path = VariantFile(c, attempts[k].variant)

(***************************************************************************)
(* C6.  In the icon pipeline a failure at any step for one icon (getting   *)
(* its image URL, download, conversion, directory creation, write) or a    *)
(* missing URL leaves that component out of the processed-name set and     *)
(* does not keep any later icon from being attempted: when the pipeline    *)
(* returns, every icon that follows an icon that was not written has been  *)
(* attempted, and no icon that was not written has its name in the set.    *)
(***************************************************************************)
C6_IconFailureIsIsolated ==
  pc = "images" =>
    LET ics == iconComponents(components)
    IN /\ \A i, j \in 1..Len(ics) :
            (i < j /\ ~IconWritten(ics[i]))
              => \E k \in 1..Len(attempts) :
                   attempts[k].id = ics[j].id /\ attempts[k].variant = "svg"
       /\ \A i \in 1..Len(ics) :
            ~IconWritten(ics[i]) => ics[i].name \notin processedIconNames

(***************************************************************************)
(* C7.  A run that resolved at least one component ends with status 0      *)
(* whatever fails during the export, on both platforms.                    *)
(***************************************************************************)
C7_ExportAlwaysExitsZero ==
  (pc = "exit" /\ components # <<>>) => exitCode = 0

(***************************************************************************)
(* C8.  At the end of a completed export, every resolved icon or image     *)
(* component that was not fully written and every requested name that was  *)
(* not found is named in the not-processed summary, in every mode; a       *)
(* listed name is marked "not found" exactly when no resolved component    *)
(* carries it.                                                             *)
(***************************************************************************)
C8_SummaryNamesEveryFailure ==
  (pc = "exit" /\ exitCode = 0 /\ components # <<>>) =>
    /\ \A c \in Range(iconComponents(components)) :
         ~IconWritten(c) => \E k \in 1..Len(notProcessed) : notProcessed[k].name = c.name
    /\ \A c \in Range(imageComponents(components)) :
         ~AllVariantsWritten(c) => \E k \in 1..Len(notProcessed) : notProcessed[k].name = c.name
    /\ \A n \in Range(componentNames) :
         ~ResolvedName(n) => \E k \in 1..Len(notProcessed) : notProcessed[k].name = n
    /\ \A k \in 1..Len(notProcessed) :
         notProcessed[k].notFound <=> ~ResolvedName(notProcessed[k].name)

\* The selectors the command line gives.
SuppliedModes ==
  (IF componentNames # <<>> THEN {"explicit"} ELSE {})
    \cup (IF sectionName # <<>> THEN {"section"} ELSE {})
    \cup (IF downloadAll THEN {"all"} ELSE {})

\* What one mode alone makes of a component list: the command line with
\* the selectors of the other modes taken away.
ModeOutcome(mode, all) ==
  LET r == CASE mode = "explicit" -> fetchComponents(all, componentNames, FALSE, <<>>)
             [] mode = "section" -> fetchComponents(all, <<>>, FALSE, sectionName)
             [] mode = "all" -> fetchComponents(all, <<>>, TRUE, <<>>)
  IN <<r.fatal, r.components>>

\* What the resolver makes of a component list with the whole command line.
ResolverOutcome(all) ==
  LET r == fetchComponents(all, componentNames, downloadAll, sectionName)
  IN <<r.fatal, r.components>>

\* The component lists extracted from the documents, no page selected.
ExtractedLists == {extractComponents(doc, <<>>, <<>>) : doc \in Documents}

(***************************************************************************)
(* C9.  The modes are mutually exclusive: for every combination of names,  *)
(* --all and --section there is one mode whose outcome, on every extracted *)
(* component list, is the resolver's outcome (the resolved list or the     *)
(* abort), the rules of the other modes having no effect.                  *)
(***************************************************************************)
C9_OneModeDecides ==
  Resolving =>
    \E mode \in SuppliedModes :
      /\ <<components = <<>>, components>> = ModeOutcome(mode, allComponents)
      /\ \A all \in ExtractedLists : ResolverOutcome(all) = ModeOutcome(mode, all)

(***************************************************************************)
(* C10.  With --section alone the resolved list is exactly the extracted   *)
(* components whose joined path contains the section string (case          *)
(* sensitive), in extraction order; when no path contains it the run ends  *)
(* with a non-zero status.                                                 *)
(***************************************************************************)
C10_SectionModeFilter ==
  (Resolving /\ componentNames = <<>> /\ sectionName # <<>>)
    => IF InSection = {}
       THEN Aborted /\ NothingExported /\ components = <<>>
       ELSE /\ Len(components) = Cardinality(InSection)
            /\ \A i \in 1..Len(components) :
                 \E k \in InSection :
                   /\ components[i] = allComponents[k]
                   /\ Cardinality({j \in InSection : j < k}) = i - 1

\* A section string that spans a path separator selects some, not all, of
\* the extracted components.
C10_Witness ==
  /\ Resolving /\ componentNames = <<>>
  /\ \E i \in 1..Len(sectionName) : sectionName[i] = "/"
  /\ components # <<>>
  /\ Len(components) < Len(allComponents)

\* The resolved component with this node id.
ResolvedById(id) == CHOOSE c \in Range(components) : c.id = id

\* The run has ended normally after resolving components.
Completed == pc = "exit" /\ exitCode = 0 /\ components # <<>>

(***************************************************************************)
(* C11.  Category routing: a resolved component goes through the icon      *)
(* pipeline exactly when its name starts with 'icon/' and through the      *)
(* image pipeline exactly when its name starts with 'img/'; for a          *)
(* component with neither prefix no render-URL request is made and no      *)
(* file is written, in every mode.                                         *)
(***************************************************************************)
C11_CategoryRouting ==
  /\ \A k \in 1..Len(attempts) :
       LET name == ResolvedById(attempts[k].id).name
       IN IF attempts[k].variant = "svg"
          THEN StartsWith(name, IconPrefix)
          ELSE StartsWith(name, ImgPrefix)
  /\ \A k \in 1..Len(requests) : \A i \in 1..Len(requests[k].ids) :
       LET name == ResolvedById(requests[k].ids[i]).name
       IN StartsWith(name, IconPrefix) \/ StartsWith(name, ImgPrefix)
  /\ \A f \in files :
       LET name == ResolvedById(f.by).name
       IN StartsWith(name, IconPrefix) \/ StartsWith(name, ImgPrefix)
  /\ Completed =>
       \A c \in Range(components) :
         /\ StartsWith(c.name, IconPrefix)
              <=> \E k \in 1..Len(attempts) :
                    attempts[k].id = c.id /\ attempts[k].variant = "svg"
         /\ StartsWith(c.name, ImgPrefix)
              <=> \E k \in 1..Len(attempts) :
                    attempts[k].id = c.id /\ attempts[k].variant # "svg"

\* A completed --all run over an icon, an image and a component that is
\* neither: files were written, none for the third.
C11_Witness ==
  /\ Completed /\ downloadAll /\ componentNames = <<>>
  /\ \E c \in Range(components) : StartsWith(c.name, IconPrefix)
  /\ \E c \in Range(components) : StartsWith(c.name, ImgPrefix)
  /\ \E c \in Range(components) :
       /\ ~StartsWith(c.name, IconPrefix) /\ ~StartsWith(c.name, ImgPrefix)
       /\ \A f \in files : f.by # c.id
  /\ files # {}

\* The duplicate reporter has run on a document.
DuplicatesReported == pc = "exit" /\ findDuplicate /\ fileData # <<>>

\* The name is in one of the two exported categories.
Prefixed(n) == StartsWith(n, IconPrefix) \/ StartsWith(n, ImgPrefix)

(***************************************************************************)
(* C12.  The duplicate reporter returns exactly the names that start with  *)
(* 'icon/' or 'img/' and are carried by two or more extracted components,  *)
(* each once and with all extracted components of that name; a name of     *)
(* another prefix is never reported; nothing is resolved, requested or     *)
(* written.                                                                *)
(***************************************************************************)
C12_DuplicateReporter ==
  DuplicatesReported =>
    /\ {reported[k].name : k \in 1..Len(reported)}
         = {n \in {allComponents[k].name : k \in 1..Len(allComponents)} :
              Prefixed(n) /\ MatchCount(n) >= 2}
    /\ \A i, j \in 1..Len(reported) : reported[i].name = reported[j].name => i = j
    /\ \A k \in 1..Len(reported) :
         reported[k].components
           = SelectSeq(allComponents, LAMBDA c : c.name = reported[k].name)
    /\ NothingExported /\ components = <<>>
    /\ allComponents = extractComponents(fileData, config.pageId, config.pageName)

\* Two components share a name of another prefix beside an icon or image
\* component; nothing is reported.
C12_Witness ==
  /\ DuplicatesReported
  /\ \E n \in {allComponents[k].name : k \in 1..Len(allComponents)} :
       ~Prefixed(n) /\ MatchCount(n) >= 2
  /\ \E k \in 1..Len(allComponents) : Prefixed(allComponents[k].name)
  /\ reported = <<>>

\* Two components share an icon/ or img/ name beside a third component;
\* the pair is reported.
C12_WitnessReported ==
  /\ DuplicatesReported
  /\ Len(reported) = 1 /\ Len(reported[1].components) = 2
  /\ Len(allComponents) = 3

\* The DPIs of the table that the skip-list leaves.
RequiredDpis == Range(AndroidDpiKeys) \ config.images.skipDpi

\* The drawable-<dpi> directories created.
DpiDirs == {d \in dirs : d.dir # "drawable"}

\* The DPI variants attempted for a component, in order.
VariantsAttempted(c) ==
  LET own == SelectSeq(attempts, LAMBDA a : a.id = c.id /\ a.variant # "svg")
  IN [k \in 1..Len(own) |-> own[k].variant]

(***************************************************************************)
(* C13.  Android DPI skip: under every skip-list no variant of a skipped   *)
(* DPI is attempted, no drawable-<dpi> directory or file exists for it and *)
(* no render request is made at its scale; when the image pipeline is      *)
(* through, the variants attempted for each resolved image are exactly     *)
(* the DPIs of the table that are not skipped, each once.                  *)
(***************************************************************************)
C13_AndroidDpiSkip ==
  config.platform = "android" =>
    /\ \A k \in 1..Len(attempts) :
         attempts[k].variant # "svg" => attempts[k].variant \in RequiredDpis
    /\ \A dpi \in Range(AndroidDpiKeys) \ RequiredDpis :
         /\ imageDrawablePath(config, dpi) \notin dirs
         /\ \A f \in files : DirOf(f.path) # imageDrawablePath(config, dpi)
         /\ \A k \in 1..Len(requests) :
              requests[k].format = "png" => requests[k].scale # ANDROID_DPI_SCALES[dpi]
    /\ pc \in {"summary", "exit"} =>
         \A c \in Range(imageComponents(components)) :
           /\ Range(VariantsAttempted(c)) = RequiredDpis
           /\ Len(VariantsAttempted(c)) = Cardinality(RequiredDpis)

\* With skipDpi [ldpi, mdpi] a completed run over an image has created
\* exactly the four other DPI directories.
C13_Witness ==
  /\ Completed /\ config.platform = "android"
  /\ config.images.skipDpi = {"ldpi", "mdpi"}
  /\ imageComponents(components) # <<>>
  /\ Cardinality(DpiDirs) = 4
  /\ \A d \in DpiDirs : \E f \in files : DirOf(f.path) = d

\* A completed Android run in which every attempt succeeded.
CleanAndroidRun ==
  /\ Completed /\ config.platform = "android"
  /\ \A k \in 1..Len(attempts) : attempts[k].ok
  /\ \A c \in Range(iconComponents(components)) : IconWritten(c)

\* No two resolved components are written to the same files.
DistinctOutputs ==
  /\ \A i, j \in 1..Len(iconComponents(components)) :
       iconFileName(config, iconComponents(components)[i])
         = iconFileName(config, iconComponents(components)[j]) => i = j
  /\ \A i, j \in 1..Len(imageComponents(components)) :
       fileNameBase(config, imageComponents(components)[i])
         = fileNameBase(config, imageComponents(components)[j]) => i = j

\* The output files written for a component.
FilesOf(c) == {f \in files : f.by = c.id}

C14_WitnessSix ==
  /\ CleanAndroidRun
  /\ config.images.skipDpi = {}
  /\ Len(components) = 1 /\ Len(imageComponents(components)) = 1
  /\ Cardinality(files) = 6

\* The manifest of an image set: the five variant file names with their
\* idiom and scale.
FiveVariantManifest(base, format) ==
  <<[base |-> base, suffix |-> "", ext |-> format, idiom |-> "universal", scale |-> "1x"],
    [base |-> base, suffix |-> "@2x", ext |-> format, idiom |-> "universal", scale |-> "2x"],
    [base |-> base, suffix |-> "@3x", ext |-> format, idiom |-> "universal", scale |-> "3x"],
    [base |-> base, suffix |-> "~ipad", ext |-> format, idiom |-> "ipad", scale |-> "1x"],
    [base |-> base, suffix |-> "~ipad@2x", ext |-> format, idiom |-> "ipad", scale |-> "2x"]>>

\* A file is the Contents.json of its folder.
IsManifest(f) == f.path.suffix = "Contents" /\ f.path.ext = "json"

(***************************************************************************)
(* C16.  On iOS, when the run is over, every resolved image component of   *)
(* which a variant was attempted has had all five scale variants           *)
(* attempted, whether or not they succeeded, and its .imageset folder      *)
(* holds one Contents.json that lists the five variant file names with     *)
(* their idiom and scale.                                                  *)
(***************************************************************************)
C16_IosManifestAfterVariants ==
  (config.platform = "ios" /\ pc = "exit") =>
    \A c \in Range(imageComponents(components)) :
      (\E k \in 1..Len(attempts) : attempts[k].id = c.id) =>
        /\ \A v \in Range(IosScaleKeys) :
             \E k \in 1..Len(attempts) : attempts[k].id = c.id /\ attempts[k].variant = v
        /\ \E f \in files :
             /\ IsManifest(f)
             /\ DirOf(f.path) = assetPath(config.images.path, fileNameBase(config, c))
             /\ f.content = FiveVariantManifest(fileNameBase(config, c), config.images.format)

(***************************************************************************)
(* C17.  On iOS, the Contents.json written for a processed icon describes  *)
(* exactly one image reference, of universal idiom, whose file name is     *)
(* the .svg file written in the same .imageset folder.                     *)
(***************************************************************************)
C17_IosIconManifest ==
  (config.platform = "ios" /\ pc \in {"iconLoop", "images"}) =>
    \A f \in files :
      IsManifest(f) =>
        /\ Len(f.content) = 1
        /\ f.content[1].idiom = "universal"
        /\ f.content[1].ext = "svg"
        /\ \E g \in files :
             g.path = InDir(DirOf(f.path), f.content[1].base, f.content[1].suffix,
                            f.content[1].ext)

\* The scale factor (in hundredths) the table gives a variant.
ScaleOf(v) == IF config.platform = "android" THEN ANDROID_DPI_SCALES[v] ELSE IOS_SCALES[v]

\* The render-URL requests issued for component c alone at a scale.
RequestsFor(c, scale) ==
  {k \in 1..Len(requests) : requests[k].ids = <<c.id>> /\ requests[k].scale = scale}

(***************************************************************************)
(* C25.  When the run is over, for every resolved image component and      *)
(* every required variant one render-URL request has been issued for that  *)
(* component alone at the variant's own scale factor, and no more (two     *)
(* iOS variants of the same factor have a request each); every raster      *)
(* request is for a single component.                                      *)
(***************************************************************************)
C25_OneRequestPerVariant ==
  (pc = "exit" /\ components # <<>>) =>
    /\ \A c \in Range(imageComponents(components)) :
         \A v \in Range(variantsOf(config)) :
           Cardinality(RequestsFor(c, ScaleOf(v)))
             = Cardinality({k \in 1..Len(variantsOf(config)) :
                              ScaleOf(variantsOf(config)[k]) = ScaleOf(v)})
    /\ \A k \in 1..Len(requests) : requests[k].format # "svg" => Len(requests[k].ids) = 1

\* The position of x in a sequence without repetitions (0 when absent).
PositionIn(s, x) ==
  IF \E k \in 1..Len(s) : s[k] = x THEN CHOOSE k \in 1..Len(s) : s[k] = x ELSE 0

\* The resolved list holds component id at this position.
ResolvedPosition(id) == PositionIn([k \in 1..Len(components) |-> components[k].id], id)

\* The place of an attempt in the order of the export: the icons first, by
\* their position in the resolved list, then the images by their position
\* and, for one image, the variants by their position in the platform's
\* table.
PlaceOf(a) ==
  LET table == IF config.platform = "android" THEN AndroidDpiKeys ELSE IosScaleKeys
      width == Len(table) + 1
  IN IF a.variant = "svg"
     THEN ResolvedPosition(a.id)
     ELSE (Len(components) + ResolvedPosition(a.id)) * width + PositionIn(table, a.variant)

\* Every attempt is of a resolved component in its own pipeline, and the
\* attempts follow one another in the order of the export.
AttemptsInExportOrder ==
  /\ \A k \in 1..Len(attempts) :
       /\ ResolvedPosition(attempts[k].id) > 0
       /\ StartsWith(ResolvedById(attempts[k].id).name,
                     IF attempts[k].variant = "svg" THEN IconPrefix ELSE ImgPrefix)
  /\ \A j, k \in 1..Len(attempts) : j < k => PlaceOf(attempts[j]) < PlaceOf(attempts[k])

(***************************************************************************)
(* C26.  The export is strictly sequential: a step of the run handles one  *)
(* icon or one variant of one image, the next begins when it is over, and  *)
(* the attempts follow one another in this order: every icon, in the order *)
(* of the resolved list, before the first image; the images in the order   *)
(* of the resolved list; the variants of one image in table order before   *)
(* the next image.                                                         *)
(***************************************************************************)
C26_StrictlySequential ==
  /\ [](AttemptsInExportOrder)
  /\ [][/\ Len(attempts') <= Len(attempts) + 1
        /\ Len(requests') <= Len(requests) + 1]_vars

\* Two icons and an image have been handled, the image in all its variants.
C26_Witness ==
  /\ pc = "exit" /\ exitCode = 0
  /\ Cardinality({k \in 1..Len(attempts) : attempts[k].variant = "svg"}) >= 2
  /\ Cardinality({k \in 1..Len(attempts) : attempts[k].variant # "svg"}) >= 2

\* Two images have been handled after an icon.
C26_WitnessImages ==
  /\ pc = "exit" /\ exitCode = 0
  /\ \E k \in 1..Len(attempts) : attempts[k].variant = "svg"
  /\ Cardinality({attempts[k].id : k \in {j \in 1..Len(attempts) : attempts[j].variant # "svg"}}) >= 2

SpecAndroid == InitAndroid /\ [][NextAndroid]_vars

\* A document has been fetched and its components extracted.
Extracted == fileData # <<>>

\* Page selectors are configured.
SelectorsGiven == config.pageId # <<>> \/ config.pageName # <<>>

\* The CANVAS nodes of the document that a selector matches.
MatchedPages ==
  {i \in 1..Len(fileData) :
     /\ fileData[i].type = "CANVAS"
     /\ \/ fileData[i].id \in Range(config.pageId)
        \/ fileData[i].name \in Range(config.pageName)}

(***************************************************************************)
(* C15.  Page-selector fallback: when page selectors are configured and no *)
(* CANVAS node matches any of them, extraction returns exactly the list it *)
(* returns for the same document without selectors.                        *)
(***************************************************************************)
C15_PageSelectorFallback ==
  (Extracted /\ SelectorsGiven /\ MatchedPages = {})
    => /\ allComponents = extractComponents(fileData, <<>>, <<>>)
       /\ visits = Visits(fileData, <<>>, <<>>)

\* Selectors that match no page of a document with pages and components.
C15_Witness ==
  /\ Extracted /\ SelectorsGiven /\ MatchedPages = {}
  /\ \E i \in 1..Len(fileData) : fileData[i].type = "CANVAS"
  /\ \E i \in 1..Len(fileData) : fileData[i].name \in Range(config.pageName)
  /\ allComponents # <<>>

\* Node a is node j or one of its ancestors (the document is in pre-order).
AncestorOrSelf(a, j) ==
  a <= j /\ \A k \in (a + 1)..j : fileData[k].depth > fileData[a].depth

\* The traversal skips a node of this name.
Unnamed(i) == fileData[i].name = <<>> \/ fileData[i].name[1] = "#"

\* The nodes the traversals start from.
TraversalRoots == Range(nodesToProcess(fileData, config.pageId, config.pageName))

\* The nodes from root r down to node j, in order.
Lineage(r, j) ==
  SelectSeq([i \in 1..(j - r + 1) |-> r + i - 1], LAMBDA a : AncestorOrSelf(a, j))

\* Node j is to be visited from root r: it lies below r, or is r, and
\* neither it nor a node between it and r is skipped.
Visitable(r, j) ==
  /\ AncestorOrSelf(r, j)
  /\ \A a \in r..j : AncestorOrSelf(a, j) => ~Unnamed(a)

(***************************************************************************)
(* C19.  Traversal never invokes the visitor on a node whose name is       *)
(* empty or starts with '#', nor on a descendant of such a node, and       *)
(* invokes it exactly once on every other node reachable from the          *)
(* traversal root.                                                         *)
(***************************************************************************)
C19_TraversalSkipsUnnamed ==
  Extracted =>
    /\ \A k \in 1..Len(visits) :
         \E r \in TraversalRoots : Visitable(r, visits[k].node)
    /\ \A r \in TraversalRoots : \A j \in 1..Len(fileData) :
         Visitable(r, j)
           => Cardinality({k \in 1..Len(visits) : visits[k].node = j}) = 1

\* A node with an ordinary name lies below a skipped node and is not
\* visited, while other nodes are.
C19_Witness ==
  /\ Extracted /\ visits # <<>>
  /\ \E r \in TraversalRoots : \E a, j \in 1..Len(fileData) :
       /\ a < j /\ AncestorOrSelf(r, a) /\ AncestorOrSelf(a, j)
       /\ Unnamed(a) /\ ~Unnamed(j)
       /\ \A k \in 1..Len(visits) : visits[k].node # j

RECURSIVE Joined(_)
\* The names of a path written one after the other with ' / ' in between.
Joined(names) ==
  IF Len(names) = 0 THEN <<>>
  ELSE IF Len(names) = 1 THEN names[1]
  ELSE Joined(SubSeq(names, 1, Len(names) - 1)) \o <<" ", "/", " ">> \o names[Len(names)]

\* The names of the nodes from root r down to node j.
LineageNames(r, j) == [k \in 1..Len(Lineage(r, j)) |-> fileData[Lineage(r, j)[k]].name]

(***************************************************************************)
(* C20.  For every visited node, at any depth, the path given to the       *)
(* visitor is the sequence of the names of the nodes from the traversal    *)
(* root down to and including that node; the path recorded on an           *)
(* extracted component is that sequence joined with ' / '.                 *)
(***************************************************************************)
C20_PathAccumulation ==
  Extracted =>
    /\ \A k \in 1..Len(visits) :
         \E r \in TraversalRoots :
           /\ AncestorOrSelf(r, visits[k].node)
           /\ visits[k].path = LineageNames(r, visits[k].node)
    /\ \A i \in 1..Len(allComponents) :
         \E r \in TraversalRoots : \E j \in 1..Len(fileData) :
           /\ fileData[j].id = allComponents[i].id
           /\ AncestorOrSelf(r, j)
           /\ allComponents[i].path = Joined(LineageNames(r, j))

\* A component extracted four levels below the traversal root.
C20_Witness ==
  /\ Extracted
  /\ \E k \in 1..Len(visits) : Len(visits[k].path) >= 4
  /\ \E i \in 1..Len(allComponents) :
       Len(allComponents[i].path) > Len(allComponents[i].name) + 6

SpecExtract == InitExtract /\ [][NextExtract]_vars

\* The last component of cs, in list order, that satisfies Owns.
LastOf(cs, Owns(_)) ==
  cs[CHOOSE k \in 1..Len(cs) :
       Owns(cs[k]) /\ \A j \in (k + 1)..Len(cs) : ~Owns(cs[j])]

\* What one run in which every step succeeds leaves in an empty output
\* directory.  Android: each target file, written for the last component
\* that has its name.  iOS: each .imageset folder holds what the last
\* component that has it wrote, an image after every icon.
SingleRunFiles ==
  LET icons == iconComponents(components)
      images == imageComponents(components)
      File(p, c, content) == [path |-> p, by |-> c.id, content |-> content]
      iconDir(c) == assetPath(config.icons.path, iconFileName(config, c))
      imageDir(c) == assetPath(config.images.path, fileNameBase(config, c))
      lastIcon(c) == LastOf(icons, LAMBDA o : iconFileName(config, o) = iconFileName(config, c))
      lastImage(c) == LastOf(images, LAMBDA o : fileNameBase(config, o) = fileNameBase(config, c))
  IN IF config.platform = "android"
     THEN {File(InDir(iconDrawablePath(config), iconFileName(config, c), "", "xml"),
                lastIcon(c), <<>>) : c \in Range(icons)}
          \cup {File(InDir(imageDrawablePath(config, v), fileNameBase(config, c), "",
                           config.images.format),
                     lastImage(c), <<>>) : c \in Range(images), v \in Range(variantsOf(config))}
     ELSE UNION {{File(InDir(imageDir(c), fileNameBase(config, c), scaleFileName(v),
                            config.images.format), lastImage(c), <<>>) :
                    v \in Range(variantsOf(config))}
                 \cup {File(contentsPath(imageDir(c)), lastImage(c),
                            FiveVariantManifest(fileNameBase(config, c), config.images.format))} :
                 c \in Range(images)}
          \cup UNION {{File(InDir(iconDir(c), iconFileName(config, c), "", "svg"),
                            lastIcon(c), <<>>),
                       File(contentsPath(iconDir(c)), lastIcon(c),
                            FiveVariantManifest(iconFileName(config, c), config.images.format))} :
                      c \in {i \in Range(icons) :
                               \A m \in Range(images) : imageDir(m) # iconDir(i)}}

\* The earlier runs of the invocation in which every step succeeded.
SucceededEarlier == {k \in 1..Len(earlierRuns) : earlierRuns[k].succeeded}

(***************************************************************************)
(* C18.  Whatever the earlier runs of the invocation did, succeeding or    *)
(* stopping half-way, a run in which every step succeeds leaves in the     *)
(* output directory exactly the files a single successful run leaves in    *)
(* an empty one, and exactly the files and folders every earlier           *)
(* successful run of the invocation left: running again changes nothing.   *)
(***************************************************************************)
C18_RerunIsIdempotent ==
  EveryStepSucceeded =>
    /\ files = SingleRunFiles
    /\ \A k \in SucceededEarlier :
         files = earlierRuns[k].files /\ dirs = earlierRuns[k].dirs

\* A successful third run after a successful second run that followed a
\* first run which stopped half-way, leaving a part of its files.
C18_Witness ==
  /\ EveryStepSucceeded
  /\ Len(earlierRuns) = 2
  /\ earlierRuns[1].exitCode = 1
  /\ earlierRuns[1].files # {}
  /\ earlierRuns[1].files # files
  /\ earlierRuns[2].succeeded

\* A successful second run after a first run that ended normally but
\* failed to write a part of its files.
C18_WitnessAfterFailedVariant ==
  /\ EveryStepSucceeded
  /\ Len(earlierRuns) = 1
  /\ earlierRuns[1].exitCode = 0
  /\ ~earlierRuns[1].succeeded
  /\ earlierRuns[1].files # files

\* The paths of the files the export writes for a resolved component.
OutputPaths(c) ==
  IF StartsWith(c.name, IconPrefix)
  THEN IF config.platform = "android"
       THEN {InDir(iconDrawablePath(config), iconFileName(config, c), "", "xml")}
       ELSE LET dir == assetPath(config.icons.path, iconFileName(config, c))
            IN {InDir(dir, iconFileName(config, c), "", "svg"), contentsPath(dir)}
  ELSE IF StartsWith(c.name, ImgPrefix)
  THEN {VariantFile(c, v) : v \in Range(variantsOf(config))}
       \cup (IF config.platform = "android" THEN {}
             ELSE {contentsPath(assetPath(config.images.path, fileNameBase(config, c)))})
  ELSE {}

\* Two resolved components go through the same pipeline.
SamePipeline(c, d) ==
  \/ StartsWith(c.name, IconPrefix) /\ StartsWith(d.name, IconPrefix)
  \/ StartsWith(c.name, ImgPrefix) /\ StartsWith(d.name, ImgPrefix)

\* No two resolved components have the same name.
ResolvedNamesDiffer ==
  \A i, j \in 1..Len(components) : components[i].name = components[j].name => i = j

(***************************************************************************)
(* C29.  After a run in which every step succeeded and no two resolved     *)
(* components had the same name, two resolved icons, or two resolved       *)
(* images, have no output file path in common: no file written for one    *)
(* lies at a path of the other.                                            *)
(***************************************************************************)
C29_DistinctNamesDistinctPaths ==
  (EveryStepSucceeded /\ ResolvedNamesDiffer) =>
    \A c, d \in Range(components) :
      (c.name # d.name /\ SamePipeline(c, d)) =>
        /\ OutputPaths(c) \cap OutputPaths(d) = {}
        /\ \A f \in files : f.by = d.id => f.path \notin OutputPaths(c)

SpecRerun == InitRerun /\ [][NextRerun]_vars

\* The nodes of a set, in document order.
InDocumentOrder(S) == SelectSeq([i \in 1..Len(fileData) |-> i], LAMBDA i : i \in S)

\* The COMPONENT nodes to be visited from root r, in document order.
ComponentsBelow(r) ==
  InDocumentOrder({j \in 1..Len(fileData) :
                     Visitable(r, j) /\ fileData[j].type = "COMPONENT"})

\* The identifiers of the extracted components, in list order.
ExtractedIds == [i \in 1..Len(allComponents) |-> allComponents[i].id]

(***************************************************************************)
(* C21.  Extraction returns the components in pre-order document order:    *)
(* root after root in document order and, under one root, every component  *)
(* to be visited in the order of the document's pre-order listing (a node  *)
(* before its children, children in sequence order).  The list is thereby  *)
(* determined by the tree and the selectors, so two extractions of the     *)
(* same tree with the same selectors return the same list.                 *)
(***************************************************************************)
C21_PreOrderDocumentOrder ==
  Extracted =>
    LET roots == InDocumentOrder(TraversalRoots)
    IN ExtractedIds =
         ConcatAll([r \in 1..Len(roots) |->
                      [k \in 1..Len(ComponentsBelow(roots[r])) |->
                         fileData[ComponentsBelow(roots[r])[k]].id]])

\* Two roots with a component each, and under one root a component that
\* lies deeper than a later one.
C21_Witness ==
  /\ Extracted
  /\ \E r, s \in TraversalRoots :
       r < s /\ ~AncestorOrSelf(r, s) /\ ComponentsBelow(r) # <<>> /\ ComponentsBelow(s) # <<>>

\* Under one root, a component in a nested page comes before a component
\* that is a later child of the root.
C21_WitnessDepth ==
  /\ Extracted
  /\ \E r \in TraversalRoots : \E i, j \in Range(ComponentsBelow(r)) :
       i < j /\ fileData[i].depth > fileData[j].depth

\* The COMPONENT_SET nodes the first pass visits.
VisibleSets ==
  {s \in 1..Len(fileData) :
     /\ fileData[s].type = "COMPONENT_SET"
     /\ \E r \in TraversalRoots : Visitable(r, s)}

\* The node an extracted component was made from (node ids are unique).
NodeOf(c) == CHOOSE j \in 1..Len(fileData) : fileData[j].id = c.id

\* The visible set an extracted component names, if there is one.
SetsOf(c) == {s \in VisibleSets : fileData[s].id = fileData[NodeOf(c)].componentSetId}

(***************************************************************************)
(* C22.  An extracted component whose componentSetId is the id of a        *)
(* COMPONENT_SET node visited from some traversal root carries that set's  *)
(* id, name and path, wherever the set lies relative to the component;     *)
(* every other extracted component (no componentSetId, or one that names   *)
(* no visited set) carries a null componentSet.                            *)
(***************************************************************************)
C22_ComponentSetAssociation ==
  Extracted =>
    \A i \in 1..Len(allComponents) :
      LET c == allComponents[i]
      IN IF SetsOf(c) # {}
         THEN \E s \in SetsOf(c) : \E r \in TraversalRoots :
                /\ Visitable(r, s)
                /\ c.componentSet = [id |-> fileData[s].id, name |-> fileData[s].name,
                                     path |-> LineageNames(r, s)]
         ELSE c.componentSet = NullComponentSet

\* A component associated with a set that comes after it in the document
\* and lies under another traversal root.
C22_Witness ==
  /\ Extracted
  /\ \E i \in 1..Len(allComponents) : \E s \in SetsOf(allComponents[i]) :
       /\ s > NodeOf(allComponents[i])
       /\ \A r \in TraversalRoots :
            ~(Visitable(r, s) /\ Visitable(r, NodeOf(allComponents[i])))

\* A component associated with a set that comes before it.
C22_WitnessBefore ==
  /\ Extracted
  /\ \E i \in 1..Len(allComponents) : \E s \in SetsOf(allComponents[i]) :
       s < NodeOf(allComponents[i])

\* A component left without a set although its componentSetId is the id of
\* a node: of a set that is not visited, or of a node that is not a set.
C22_WitnessNull ==
  /\ Extracted
  /\ \E i \in 1..Len(allComponents) :
       /\ allComponents[i].componentSet = NullComponentSet
       /\ \E j \in 1..Len(fileData) :
            /\ fileData[j].id = allComponents[i].componentSetId
            /\ fileData[j].type = "COMPONENT_SET"
  /\ \E i \in 1..Len(allComponents) :
       /\ allComponents[i].componentSet = NullComponentSet
       /\ \E j \in 1..Len(fileData) :
            /\ fileData[j].id = allComponents[i].componentSetId
            /\ fileData[j].type # "COMPONENT_SET"
            /\ \E r \in TraversalRoots : Visitable(r, j)

\* A selector matches node i by id, by name.
IdMatch(i) == fileData[i].id \in Range(config.pageId)

NameMatch(i) == fileData[i].name \in Range(config.pageName)

(***************************************************************************)
(* C23.  When page selectors are configured and at least one matches, the  *)
(* traversal roots are exactly the CANVAS nodes whose id is among the id   *)
(* selectors or whose name is among the name selectors, each once, in      *)
(* document order: a node of another type is never a root, and each pass   *)
(* visits a node once for every matched page it is to be visited from.     *)
(***************************************************************************)
C23_RootsAreMatchedPages ==
  (Extracted /\ SelectorsGiven /\ MatchedPages # {}) =>
    /\ nodesToProcess(fileData, config.pageId, config.pageName) = InDocumentOrder(MatchedPages)
    /\ \A j \in 1..Len(fileData) :
         Cardinality({k \in 1..Len(visits) : visits[k].node = j})
           = Cardinality({r \in MatchedPages : Visitable(r, j)})

\* A page matched both by id and by name, with nodes visited below it.
C23_Witness ==
  /\ Extracted
  /\ \E r \in MatchedPages : IdMatch(r) /\ NameMatch(r) /\ Len(visits) > 1

\* Beside a matched page, a node of another type whose name a selector
\* names.
C23_WitnessOtherType ==
  /\ Extracted /\ MatchedPages # {} /\ visits # <<>>
  /\ \E j \in 1..Len(fileData) : fileData[j].type # "CANVAS" /\ NameMatch(j)

\* A node of another type whose id a selector names, beside a page matched
\* by name.
C23_WitnessOtherTypeById ==
  /\ Extracted /\ MatchedPages # {} /\ visits # <<>>
  /\ \E j \in 1..Len(fileData) : fileData[j].type # "CANVAS" /\ IdMatch(j)

\* No identifier occurs twice in a list of components.
NoIdTwice(cs) == \A i, j \in 1..Len(cs) : cs[i].id = cs[j].id => i = j

(***************************************************************************)
(* C27.  Whatever the page selectors, the extracted list contains no       *)
(* component identifier twice (the node ids of the document are unique).   *)
(***************************************************************************)
C27_NoComponentTwice == Extracted => NoIdTwice(allComponents)

RECURSIVE IsSubSequence(_, _)
\* s can be obtained from t by leaving elements out.
IsSubSequence(s, t) ==
  IF s = <<>> THEN TRUE
  ELSE IF t = <<>> THEN FALSE
  ELSE IF Head(s) = Head(t) THEN IsSubSequence(Tail(s), Tail(t))
  ELSE IsSubSequence(s, Tail(t))

\* The identifiers extracted from the whole document, without selectors.
WholeDocumentIds ==
  LET whole == extractComponents(fileData, <<>>, <<>>)
  IN [i \in 1..Len(whole) |-> whole[i].id]

\* Node j lies below a node, or is a node, that the traversal skips.
BelowUnnamed(j) == \E a \in 1..j : AncestorOrSelf(a, j) /\ Unnamed(a)

(***************************************************************************)
(* C28.  Page selectors only narrow the search: the identifiers extracted  *)
(* with selectors form a sub-sequence of those extracted from the whole    *)
(* document without selectors, and no component is extracted from beneath  *)
(* a node whose name is empty or starts with '#'.  Stated for the          *)
(* extractions that return no component twice.                             *)
(***************************************************************************)
C28_SelectorsOnlyNarrow ==
  (Extracted /\ NoIdTwice(allComponents)) =>
    /\ IsSubSequence(ExtractedIds, WholeDocumentIds)
    /\ \A i \in 1..Len(allComponents) : ~BelowUnnamed(NodeOf(allComponents[i]))

\* The requested names that have more than one exact match.
AmbiguousNames == {n \in Range(componentNames) : MatchCount(n) > 1}

\* The run ended in the report of ambiguous names.
AbortedOnAmbiguity == Resolving /\ Aborted /\ reported # <<>>

(***************************************************************************)
(* C24.  When explicit-name resolution aborts on ambiguity, the names      *)
(* reported before the process ends are exactly the requested names with   *)
(* more than one exact match, all of them and each once, and each is       *)
(* reported with all the components that carry the name.                   *)
(***************************************************************************)
C24_AllAmbiguousNamesReported ==
  AbortedOnAmbiguity =>
    /\ {reported[k].name : k \in 1..Len(reported)} = AmbiguousNames
    /\ \A j, k \in 1..Len(reported) : reported[j].name = reported[k].name => j = k
    /\ \A k \in 1..Len(reported) :
         /\ Len(reported[k].components) = MatchCount(reported[k].name)
         /\ {c.id : c \in Range(reported[k].components)}
              = {c.id : c \in {a \in Range(allComponents) : a.name = reported[k].name}}

\* Two ambiguous names reported together, one of them asked for twice.
C24_Witness ==
  /\ AbortedOnAmbiguity
  /\ Len(reported) = 2
  /\ Len(componentNames) = 3
  /\ \E i, j \in 1..Len(componentNames) : i # j /\ componentNames[i] = componentNames[j]

\* Two ambiguous names reported beside a requested name without a match.
C24_WitnessUnmatched ==
  /\ AbortedOnAmbiguity
  /\ Len(reported) = 2
  /\ \E n \in Range(componentNames) : MatchCount(n) = 0

SpecAmbiguity == InitAmbiguity /\ [][NextAmbiguity]_vars

\* The run has ended.
Terminated == pc = "exit"

\* No variant of a component (for an icon, the icon) is attempted twice.
NoAttemptTwice ==
  \A j, k \in 1..Len(attempts) :
    (attempts[j].id = attempts[k].id /\ attempts[j].variant = attempts[k].variant) => j = k

\* Every collaborator call returning, the run ends.
Terminates == <>Terminated

(***************************************************************************)
(* C30.  Whatever the document tree, when every collaborator call returns  *)
(* (with success or with failure) the run ends, and during the run no      *)
(* component and no variant of a component is attempted more than once.    *)
(***************************************************************************)
C30_TerminatesWithoutRepetition == Terminates /\ []NoAttemptTwice

\* Every step of the run is taken when it can be: each collaborator call
\* returns.
SpecPagesExport ==
  InitPagesExport /\ [][NextPagesExport]_vars /\ WF_vars(NextPagesExport)

SpecPages == InitExtract /\ [][NextPages]_vars

Spec == Init /\ [][Next]_vars

\* The runs in which nothing fails.
SpecNoFaults == InitNoFaults /\ [][Next]_vars

====
